---------------------------- MODULE Spec2Model ----------------------------
(***************************************************************************)
(* Model of outage-monitor-mcp: the StatusGator upstream client            *)
(* (src/src/statusgator.ts), the MCP dispatcher (src/src/server.ts) and    *)
(* the HTTP adapter with bearer-token authentication                      *)
(* (src/unnamed/part_002).                                                 *)
(*                                                                         *)
(* JavaScript strings are TLA+ strings; toLowerCase, trim, includes, the   *)
(* Bearer regular expression and Date parsing are computed character by    *)
(* character.  Every client operation takes the call-time environment      *)
(* `net` (the upstream data and the outcome of each outbound request) and  *)
(* the log `reqs` of the requests already issued, and returns either       *)
(* Ok(value, log) or Err(message, log).                                    *)
(***************************************************************************)
EXTENDS Integers, Sequences, FiniteSets, TLC

VARIABLES
    upstream,   \* the third-party API: [services, incidents]
    envKey,     \* process.env.STATUSGATOR_API_KEY ("" when unset)
    phase,      \* "idle" | "done": position of the single request in flight
    call,       \* the request being served and the outcomes of its fetches
    reply,      \* the response produced by the handler
    sent,       \* the upstream requests issued while serving `call`
    usedKey,    \* the API key handed to StatusGatorClient for `call`
    clock,      \* the wall clock read by new Date(); it stands still here
    previous,   \* the exchange delivered last, with the upstream state it saw
    checks,     \* check_all_outages: the outcome of each per-service check
    finished,   \* check_all_outages: the services in the order they completed
    secretsCache,  \* secrets-loader: the cached mapping, Null until loaded
    isLoading,     \* secrets-loader: a load is in flight
    callers,    \* secrets-loader: where each caller of loadSecrets stands
    loads,      \* secrets-loader: the loads started so far and what they produced
    secretString,  \* the SecretString Secrets Manager holds (Undefined: none)
    useSecretsManager,  \* USE_SECRETS_MANAGER, fixed when the module is loaded
    loop,       \* getMultiServiceHistory: where its for loop stands
    tracing,    \* the request the tracing middleware is handling, and the log
    traced,     \* TracedHttpClient.request: where one request stands
    inbound     \* POST /mcp: the tools/call requests being served at once

fanVars == <<checks, finished>>

secretsVars == <<secretsCache, isLoading, callers, loads, secretString,
                 useSecretsManager>>

otherVars == <<loop, tracing, traced, inbound>>

vars == <<upstream, envKey, phase, call, reply, sent, usedKey, clock,
          previous, fanVars, secretsVars, otherVars>>

----------------------------------------------------------------------------
(* Bounds *)

\* outbound requests of one call whose outcome may be a failure
MaxFaultPos == 3

\* incidents in one upstream incident feed (history checks)
MaxFeedLen == 3

\* services in one upstream catalog (alias checks)
MaxCatalogLen == 2

\* loads of the secrets backend one run may start
MaxLoads == 2

\* the most often the clock advances between requests
MaxTicks == 1

\* the entries a route handler writes through req.logger for one request
MaxHandlerLogs == 2

\* the requests made through one TracedHttpClient, one after the other
MaxTracedRequests == 2

\* the tools/call requests the HTTP adapter handles at the same time
MaxInbound == 2

----------------------------------------------------------------------------
(* JavaScript values *)

\* undefined / null / a missing property
Undefined == "<undefined>"
Null == [null |-> TRUE]

\* the NaN time value of an invalid Date
NaN == -1

----------------------------------------------------------------------------
(* String primitives *)

CharAt(s, i) == SubSeq(s, i, i)

LowerChar(c) ==
    CASE c = "A" -> "a" [] c = "B" -> "b" [] c = "C" -> "c" [] c = "D" -> "d"
      [] c = "E" -> "e" [] c = "F" -> "f" [] c = "G" -> "g" [] c = "H" -> "h"
      [] c = "I" -> "i" [] c = "J" -> "j" [] c = "K" -> "k" [] c = "L" -> "l"
      [] c = "M" -> "m" [] c = "N" -> "n" [] c = "O" -> "o" [] c = "P" -> "p"
      [] c = "Q" -> "q" [] c = "R" -> "r" [] c = "S" -> "s" [] c = "T" -> "t"
      [] c = "U" -> "u" [] c = "V" -> "v" [] c = "W" -> "w" [] c = "X" -> "x"
      [] c = "Y" -> "y" [] c = "Z" -> "z" [] OTHER -> c

RECURSIVE toLowerCase(_)
toLowerCase(s) ==
    IF Len(s) = 0 THEN ""
    ELSE LowerChar(CharAt(s, 1)) \o toLowerCase(SubSeq(s, 2, Len(s)))

IsSpace(c) == c = " "

RECURSIVE trimStart(_)
trimStart(s) ==
    IF Len(s) > 0 /\ IsSpace(CharAt(s, 1)) THEN trimStart(SubSeq(s, 2, Len(s)))
    ELSE s

RECURSIVE trimEnd(_)
trimEnd(s) ==
    IF Len(s) > 0 /\ IsSpace(CharAt(s, Len(s))) THEN trimEnd(SubSeq(s, 1, Len(s) - 1))
    ELSE s

trim(s) == trimEnd(trimStart(s))

includes(s, t) ==
    \E i \in 1..(Len(s) - Len(t) + 1) : SubSeq(s, i, i + Len(t) - 1) = t

\* JavaScript truthiness of a string-or-undefined value
Truthy(v) == v # Undefined /\ v # ""


----------------------------------------------------------------------------
(* new Date(string).getTime(), in seconds (no modelled string carries      *)
(* milliseconds).  Accepted: "YYYY-MM-DDTHH:MM:SSZ" and the date-only form *)
(* "YYYY-MM-DD" (UTC midnight); anything else is an invalid Date.          *)

DigitVal(c) ==
    CASE c = "0" -> 0 [] c = "1" -> 1 [] c = "2" -> 2 [] c = "3" -> 3
      [] c = "4" -> 4 [] c = "5" -> 5 [] c = "6" -> 6 [] c = "7" -> 7
      [] c = "8" -> 8 [] c = "9" -> 9 [] OTHER -> NaN

RECURSIVE ParseNat(_)
ParseNat(s) ==
    IF Len(s) = 0 THEN 0
    ELSE LET d == DigitVal(CharAt(s, Len(s)))
             r == ParseNat(SubSeq(s, 1, Len(s) - 1))
         IN IF d = NaN \/ r = NaN THEN NaN ELSE 10 * r + d

DaysFromCivil(y, m, d) ==
    LET yy  == IF m <= 2 THEN y - 1 ELSE y
        era == yy \div 400
        yoe == yy - era * 400
        mp  == IF m > 2 THEN m - 3 ELSE m + 9
        doy == (153 * mp + 2) \div 5 + d - 1
        doe == yoe * 365 + yoe \div 4 - yoe \div 100 + doy
    IN era * 146097 + doe - 719468

DateParse(s) ==
    IF s = Undefined \/ (Len(s) # 10 /\ Len(s) # 20) THEN NaN
    ELSE LET y  == ParseNat(SubSeq(s, 1, 4))
             mo == ParseNat(SubSeq(s, 6, 7))
             d  == ParseNat(SubSeq(s, 9, 10))
             long == Len(s) = 20
             h  == IF long THEN ParseNat(SubSeq(s, 12, 13)) ELSE 0
             mi == IF long THEN ParseNat(SubSeq(s, 15, 16)) ELSE 0
             se == IF long THEN ParseNat(SubSeq(s, 18, 19)) ELSE 0
             shape == /\ CharAt(s, 5) = "-" /\ CharAt(s, 8) = "-"
                      /\ long => /\ CharAt(s, 11) = "T" /\ CharAt(s, 14) = ":"
                                 /\ CharAt(s, 17) = ":" /\ CharAt(s, 20) = "Z"
         IN IF /\ shape
               /\ NaN \notin {y, mo, d, h, mi, se}
               /\ mo \in 1..12 /\ d \in 1..31
               /\ h <= 23 /\ mi <= 59 /\ se <= 59
            THEN ((DaysFromCivil(y, mo, d) * 24 + h) * 60 + mi) * 60 + se
            ELSE NaN

\* a >= b and a <= b on Date objects: false as soon as one side is invalid
DateGt(a, b) == a # NaN /\ b # NaN /\ a > b
DateGe(a, b) == a # NaN /\ b # NaN /\ a >= b
DateLe(a, b) == a # NaN /\ b # NaN /\ a <= b

----------------------------------------------------------------------------
(* Results of the asynchronous operations: a value or a thrown Error, and  *)
(* the log of upstream requests issued so far.                             *)

Ok(v, log)  == [ok |-> TRUE,  val |-> v, msg |-> "", reqs |-> log]
Err(m, log) == [ok |-> FALSE, val |-> Null, msg |-> m, reqs |-> log]

\* const v = ...; Then(v)
Bind(v, Then(_)) == Then(v)

\* const r = await ...; Then(r) -- a rejection propagates to the caller
Await(r, Then(_)) == IF r.ok THEN Then(r) ELSE r

\* try { ... } catch (error) { Handler(error) }
Catch(r, Handler(_)) == IF r.ok THEN r ELSE Handler(r)

----------------------------------------------------------------------------
(* The upstream client, src/src/statusgator.ts *)

baseUrl == "https://statusgator.com/api/v3"

serviceMapKeys ==
    {"att", "verizon", "t-mobile", "tmobile", "aws", "amazon-web-services",
     "google-cloud", "gcp", "azure", "microsoft-azure"}

\* the map without its short forms
serviceMapLongFormsOnly(k) ==
    CASE k = "att" -> "att"
      [] k = "verizon" -> "verizon"
      [] k = "t-mobile" -> "t-mobile"
      [] k = "amazon-web-services" -> "amazon-web-services"
      [] k = "google-cloud" -> "google-cloud"
      [] k = "microsoft-azure" -> "microsoft-azure"
      [] OTHER -> Undefined

serviceMap(k) ==
    CASE k = "att" -> "att"
      [] k = "verizon" -> "verizon"
      [] k = "t-mobile" -> "t-mobile"
      [] k = "tmobile" -> "t-mobile"
      [] k = "aws" -> "amazon-web-services"
      [] k = "amazon-web-services" -> "amazon-web-services"
      [] k = "google-cloud" -> "google-cloud"
      [] k = "gcp" -> "google-cloud"
      [] k = "azure" -> "microsoft-azure"
      [] k = "microsoft-azure" -> "microsoft-azure"
      [] OTHER -> Undefined

\* index of the first element satisfying P, 0 when there is none
FindIndex(seq, P(_)) ==
    IF \E i \in 1..Len(seq) : P(seq[i])
    THEN CHOOSE i \in 1..Len(seq) : P(seq[i]) /\ \A j \in 1..(i - 1) : ~P(seq[j])
    ELSE 0

\* what upstream answers for an endpoint: 200 with {data}, or 404
UpstreamBody(net, kind, id) ==
    IF kind = "list" THEN [status |-> 200, data |-> net.services]
    ELSE Bind(FindIndex(net.services, LAMBDA s : s.id = id), LAMBDA k :
           CASE k = 0 -> [status |-> 404, data |-> Null]
             [] kind = "detail" -> [status |-> 200, data |-> net.services[k]]
             [] OTHER -> [status |-> 200, data |-> net.incidents[id]])

EndpointPath(kind, id) ==
    CASE kind = "list" -> "/services"
      [] kind = "detail" -> "/services/" \o id
      [] OTHER -> "/services/" \o id \o "/incidents"

\* the outcome of the n-th fetch of a call
Respond(net, n, log, body) ==
    IF n \in net.faults /\ net.cause = "transport"
    THEN Err("Failed to fetch from StatusGator: " \o "network timeout", log)
    ELSE IF n \in net.faults
    THEN Err("Failed to fetch from StatusGator: "
               \o "StatusGator API error: 503 Service Unavailable", log)
    ELSE IF body.status # 200
    THEN Err("Failed to fetch from StatusGator: "
               \o "StatusGator API error: 404 Not Found", log)
    ELSE Ok(body.data, log)

\* one GET, issued a second time if it fails
makeRequestRetrying(net, reqs, kind, id) ==
    Bind(Respond(net, Len(reqs) + 1,
                 Append(reqs, [url |-> baseUrl \o EndpointPath(kind, id),
                               authorization |-> "Bearer " \o net.apiKey]),
                 UpstreamBody(net, kind, id)),
         LAMBDA first :
           IF first.ok THEN first
           ELSE Respond(net, Len(first.reqs) + 1,
                        Append(first.reqs, [url |-> baseUrl \o EndpointPath(kind, id),
                                            authorization |-> "Bearer " \o net.apiKey]),
                        UpstreamBody(net, kind, id)))

\* one GET; the request carries the client's API key
makeRequest(net, reqs, kind, id) ==
    Respond(net, Len(reqs) + 1,
            Append(reqs, [url |-> baseUrl \o EndpointPath(kind, id),
                          authorization |-> "Bearer " \o net.apiKey]),
            UpstreamBody(net, kind, id))

getServices(net, reqs) == makeRequest(net, reqs, "list", "")

\* this.serviceMap[normalizedName] || normalizedName
mappedName(normalizedName) ==
    IF Truthy(serviceMap(normalizedName)) THEN serviceMap(normalizedName)
    ELSE normalizedName

\* the first service that matches at all, exactly or in part
findServiceFirstMatch(services, name) ==
    Bind(FindIndex(services, LAMBDA s : \/ includes(toLowerCase(s.name), name)
                                        \/ includes(s.id, name)),
         LAMBDA p : IF p # 0 THEN services[p] ELSE Null)

\* the exact match first, then the partial match, then null
findService(services, name) ==
    Bind(FindIndex(services, LAMBDA s : s.id = name \/ toLowerCase(s.name) = name),
         LAMBDA e :
           IF e # 0 THEN services[e]
           ELSE Bind(FindIndex(services, LAMBDA s : \/ includes(toLowerCase(s.name), name)
                                                      \/ includes(s.id, name)),
                     LAMBDA p : IF p # 0 THEN services[p] ELSE Null))

\* a search that takes a failed catalog request for an empty catalog
searchServiceSwallowing(net, reqs, serviceName) ==
    Catch(Await(getServices(net, reqs), LAMBDA r :
            Ok(findService(r.val, mappedName(trim(toLowerCase(serviceName)))), r.reqs)),
          LAMBDA e : Ok(Null, e.reqs))

searchService(net, reqs, serviceName) ==
    Await(getServices(net, reqs), LAMBDA r :
      Ok(findService(r.val, mappedName(trim(toLowerCase(serviceName)))), r.reqs))

getServiceIncidents(net, reqs, serviceId) ==
    Catch(makeRequest(net, reqs, "incidents", serviceId), LAMBDA e : Ok(<<>>, e.reqs))

NotResolved(i) == i.status # "resolved"

\* Promise.all([details, incidents]): both requests are issued, details first
fetchStatus(net, reqs, serviceId) ==
    Bind(makeRequest(net, reqs, "detail", serviceId), LAMBDA d :
      Bind(getServiceIncidents(net, d.reqs, serviceId), LAMBDA i :
        IF ~d.ok THEN Err(d.msg, i.reqs)
        ELSE Ok([service_id |-> d.val.id,
                 service_name |-> d.val.name,
                 status |-> d.val.status,
                 current_incidents |-> SelectSeq(i.val, NotResolved),
                 last_checked |-> net.now], i.reqs)))

\* the try block of getServiceStatus
getServiceStatusTry(net, reqs, serviceIdentifier) ==
    Await(searchService(net, reqs, serviceIdentifier), LAMBDA s :
      fetchStatus(net, s.reqs, IF s.val # Null THEN s.val.id ELSE serviceIdentifier))

\* without the catch
getServiceStatusUncaught(net, reqs, serviceIdentifier) ==
    getServiceStatusTry(net, reqs, serviceIdentifier)

getServiceStatus(net, reqs, serviceIdentifier) ==
    Catch(getServiceStatusTry(net, reqs, serviceIdentifier), LAMBDA e : Ok(Null, e.reqs))

\* comparing the status without regard to case
checkOutageAnyCase(net, reqs, serviceName) ==
    Await(getServiceStatus(net, reqs, serviceName), LAMBDA r :
      IF r.val = Null
      THEN Ok([service |-> serviceName, hasOutage |-> FALSE,
               status |-> "unknown", incidents |-> <<>>], r.reqs)
      ELSE Ok([service |-> r.val.service_name,
               hasOutage |-> /\ toLowerCase(r.val.status) # "operational"
                             /\ toLowerCase(r.val.status) # "up",
               status |-> r.val.status,
               incidents |-> r.val.current_incidents], r.reqs))

checkOutage(net, reqs, serviceName) ==
    Await(getServiceStatus(net, reqs, serviceName), LAMBDA r :
      IF r.val = Null
      THEN Ok([service |-> serviceName, hasOutage |-> FALSE,
               status |-> "unknown", incidents |-> <<>>], r.reqs)
      ELSE Ok([service |-> r.val.service_name,
               hasOutage |-> r.val.status # "operational" /\ r.val.status # "up",
               status |-> r.val.status,
               incidents |-> r.val.current_incidents], r.reqs))

\* Array.prototype.sort with (a, b) => time(b) - time(a): a stable sort that
\* puts b before a exactly when the comparator is positive
oldestFirst(a, b) == DateParse(a.created_at) - DateParse(b.created_at)
newestFirst(a, b) == DateParse(b.created_at) - DateParse(a.created_at)

RECURSIVE InsertSorted(_, _)
InsertSorted(sorted, x) ==
    IF Len(sorted) = 0 THEN <<x>>
    ELSE IF newestFirst(sorted[Len(sorted)], x) > 0
         THEN Append(InsertSorted(SubSeq(sorted, 1, Len(sorted) - 1), x),
                     sorted[Len(sorted)])
         ELSE Append(sorted, x)

RECURSIVE sort(_)
sort(seq) ==
    IF Len(seq) = 0 THEN <<>>
    ELSE InsertSorted(sort(SubSeq(seq, 1, Len(seq) - 1)), seq[Len(seq)])

\* if (bound) incidents = incidents.filter(i => Within(new Date(i.created_at), bound))
filterByDate(incidents, bound, Within(_, _)) ==
    IF Truthy(bound)
    THEN Bind(DateParse(bound), LAMBDA t :
           SelectSeq(incidents, LAMBDA i : Within(DateParse(i.created_at), t)))
    ELSE incidents

filterByStatus(incidents, status) ==
    IF Truthy(status)
    THEN Bind(toLowerCase(status), LAMBDA st :
           SelectSeq(incidents, LAMBDA i : toLowerCase(i.status) = st))
    ELSE incidents

\* the three filters of getHistoricalIncidents
filterIncidents(incidents, startDate, endDate, status) ==
    filterByStatus(filterByDate(filterByDate(incidents, startDate, DateGe),
                                endDate, DateLe),
                   status)

\* the try block of getHistoricalIncidents
getHistoricalIncidentsTry(net, reqs, serviceName, startDate, endDate, status) ==
    Await(searchService(net, reqs, serviceName), LAMBDA s :
      IF s.val = Null
      THEN Err("Service '" \o serviceName \o "' not found", s.reqs)
      ELSE Await(getServiceIncidents(net, s.reqs, s.val.id), LAMBDA i :
             Ok(sort(filterIncidents(i.val, startDate, endDate, status)), i.reqs)))

\* without the catch
getHistoricalIncidentsUncaught(net, reqs, serviceName, startDate, endDate, status) ==
    getHistoricalIncidentsTry(net, reqs, serviceName, startDate, endDate, status)

getHistoricalIncidents(net, reqs, serviceName, startDate, endDate, status) ==
    Catch(getHistoricalIncidentsTry(net, reqs, serviceName, startDate, endDate, status),
          LAMBDA e : Ok(<<>>, e.reqs))

RECURSIVE SumDowntime(_)
SumDowntime(incidents) ==
    IF Len(incidents) = 0 THEN 0
    ELSE (IF Truthy(Head(incidents).resolved_at)
          THEN DateParse(Head(incidents).resolved_at) - DateParse(Head(incidents).created_at)
          ELSE 0)
         + SumDowntime(Tail(incidents))

\* a / b cut to a whole number
TruncDiv(a, b) == a \div b

\* Math.round(a / b) for b > 0
RoundDiv(a, b) == (2 * a + b) \div (2 * b)

\* the statistics of getServiceUptime, times in seconds
UptimeStats(service, startDate, endDate, incidents, downSeconds, periodStart, periodEnd) ==
    [service_id |-> service.id,
     service_name |-> service.name,
     period_start |-> startDate,
     period_end |-> endDate,
     total_incidents |-> Len(incidents),
     total_downtime_minutes |-> RoundDiv(downSeconds, 60),
     \* in hundredths of a percent
     uptime_percentage |->
         \* periodMinutes > 0 is false when a bound is not a date
         IF periodStart # NaN /\ periodEnd # NaN /\ periodEnd - periodStart > 0
         \* (period - down) / period * 100 taken as 100 - down / period * 100
         THEN 10000 + RoundDiv(-(downSeconds * 10000), periodEnd - periodStart)
         ELSE 10000,
     incidents |-> incidents]

\* the try block of getServiceUptime
getServiceUptimeTry(net, reqs, serviceName, startDate, endDate) ==
    Await(searchService(net, reqs, serviceName), LAMBDA s :
      IF s.val = Null
      THEN Err("Service '" \o serviceName \o "' not found", s.reqs)
      ELSE Await(getHistoricalIncidents(net, s.reqs, serviceName,
                                        startDate, endDate, Undefined),
                 LAMBDA h :
                   Ok(UptimeStats(s.val, startDate, endDate, h.val, SumDowntime(h.val),
                                  DateParse(startDate), DateParse(endDate)),
                      h.reqs)))

getServiceUptime(net, reqs, serviceName, startDate, endDate) ==
    Catch(getServiceUptimeTry(net, reqs, serviceName, startDate, endDate),
          LAMBDA e : Ok(Null, e.reqs))

\* a name with nothing to report left out
PutUnlessEmpty(entries, key, value) ==
    IF value = <<>> THEN entries
    ELSE Bind(FindIndex(entries, LAMBDA e : e[1] = key), LAMBDA k :
           IF k = 0 THEN Append(entries, <<key, value>>)
           ELSE [entries EXCEPT ![k] = <<key, value>>])

\* results[key] = value on an object kept as its <<key, value>> entries in
\* insertion order
Put(entries, key, value) ==
    Bind(FindIndex(entries, LAMBDA e : e[1] = key), LAMBDA k :
      IF k = 0 THEN Append(entries, <<key, value>>)
      ELSE [entries EXCEPT ![k] = <<key, value>>])

RECURSIVE getMultiServiceHistory(_, _, _, _, _)
getMultiServiceHistory(net, reqs, services, startDate, endDate) ==
    IF Len(services) = 0 THEN Ok(<<>>, reqs)
    ELSE Await(getMultiServiceHistory(net, reqs, SubSeq(services, 1, Len(services) - 1),
                                      startDate, endDate),
               LAMBDA before :
                 Await(getHistoricalIncidents(net, before.reqs, services[Len(services)],
                                              startDate, endDate, Undefined),
                       LAMBDA h :
                         Ok(Put(before.val, services[Len(services)], h.val), h.reqs)))

monitoredServices == <<"att", "verizon", "t-mobile", "aws", "google-cloud", "azure">>

RECURSIVE CurrentIncidentsOrThrow(_, _, _)
\* a loop that gives up when the status of a service cannot be had
CurrentIncidentsOrThrow(net, reqs, names) ==
    IF Len(names) = 0 THEN Ok(<<>>, reqs)
    ELSE Await(CurrentIncidentsOrThrow(net, reqs, SubSeq(names, 1, Len(names) - 1)),
               LAMBDA before :
                 Await(getServiceStatus(net, before.reqs, names[Len(names)]),
                       LAMBDA st :
                         IF st.val # Null
                         THEN Ok(before.val \o st.val.current_incidents, st.reqs)
                         ELSE Err("Service '" \o names[Len(names)] \o "' not found",
                                  st.reqs)))

RECURSIVE CurrentIncidentsOf(_, _, _)
CurrentIncidentsOf(net, reqs, names) ==
    IF Len(names) = 0 THEN Ok(<<>>, reqs)
    ELSE Await(CurrentIncidentsOf(net, reqs, SubSeq(names, 1, Len(names) - 1)),
               LAMBDA before :
                 Await(getServiceStatus(net, before.reqs, names[Len(names)]),
                       LAMBDA st :
                         Ok(IF st.val # Null THEN before.val \o st.val.current_incidents
                            ELSE before.val, st.reqs)))

getAllCurrentIncidents(net, reqs) == CurrentIncidentsOf(net, reqs, monitoredServices)

----------------------------------------------------------------------------
(* The MCP dispatcher, src/src/server.ts *)

\* a catalog declaring a tool the handler has no branch for
TOOLSWithRestart ==
    <<[name |-> "check_outage", required |-> <<"service">>],
      [name |-> "check_all_outages", required |-> <<>>],
      [name |-> "get_service_status", required |-> <<"service">>],
      [name |-> "get_all_incidents", required |-> <<>>],
      [name |-> "search_service", required |-> <<"service_name">>],
      [name |-> "get_historical_incidents", required |-> <<"service">>],
      [name |-> "get_service_uptime", required |-> <<"service", "start_date", "end_date">>],
      [name |-> "get_multi_service_history", required |-> <<"services">>],
      [name |-> "restart_service", required |-> <<>>]>>

TOOLS ==
    <<[name |-> "check_outage", required |-> <<"service">>],
      [name |-> "check_all_outages", required |-> <<>>],
      [name |-> "get_service_status", required |-> <<"service">>],
      [name |-> "get_all_incidents", required |-> <<>>],
      [name |-> "search_service", required |-> <<"service_name">>],
      [name |-> "get_historical_incidents", required |-> <<"service">>],
      [name |-> "get_service_uptime", required |-> <<"service", "start_date", "end_date">>],
      [name |-> "get_multi_service_history", required |-> <<"services">>]>>

\* the values the catalog allows for the service argument of check_outage
checkOutageServiceEnum ==
    <<"att", "verizon", "t-mobile", "tmobile", "aws", "google-cloud", "gcp", "azure">>

\* args?.key
Arg(args, key) == IF key \in DOMAIN args THEN args[key] ELSE Undefined

\* value || fallback
OrElse(v, fallback) == IF Truthy(v) THEN v ELSE fallback

RECURSIVE checkAll(_, _, _)
\* Promise.all(services.map(service => checkOutage(service))): the results
\* are in the order of `names`
checkAll(net, reqs, names) ==
    IF Len(names) = 0 THEN Ok(<<>>, reqs)
    ELSE Await(checkAll(net, reqs, SubSeq(names, 1, Len(names) - 1)), LAMBDA before :
           Await(checkOutage(net, before.reqs, names[Len(names)]), LAMBDA c :
             Ok(Append(before.val, c.val), c.reqs)))

RECURSIVE SumLengths(_)
SumLengths(entries) ==
    IF Len(entries) = 0 THEN 0
    ELSE Len(Head(entries)[2]) + SumLengths(Tail(entries))

\* the summary of check_all_outages
OutageSummary(results, outages) ==
    [total_services |-> Len(monitoredServices),
     services_with_outages |-> Len(outages),
     outages |-> outages,
     all_statuses |-> results]

\* The branches of the switch of the CallTool handler: each yields
\* Ok(result payload) or the Error it throws.

caseCheckOutage(net, args) ==
    IF ~Truthy(Arg(args, "service")) THEN Err("Service parameter is required", <<>>)
    ELSE checkOutage(net, <<>>, Arg(args, "service"))

caseCheckAllOutages(net, args) ==
    Await(checkAll(net, <<>>, monitoredServices), LAMBDA r :
      Ok(OutageSummary(r.val, SelectSeq(r.val, LAMBDA c : c.hasOutage)), r.reqs))

\* not-found thrown instead of returned
caseGetServiceStatusThrowing(net, args) ==
    IF ~Truthy(Arg(args, "service")) THEN Err("Service parameter is required", <<>>)
    ELSE Await(getServiceStatus(net, <<>>, Arg(args, "service")), LAMBDA r :
           IF r.val = Null
           THEN Err("Service '" \o Arg(args, "service") \o "' not found", r.reqs)
           ELSE r)

caseGetServiceStatus(net, args) ==
    IF ~Truthy(Arg(args, "service")) THEN Err("Service parameter is required", <<>>)
    ELSE Await(getServiceStatus(net, <<>>, Arg(args, "service")), LAMBDA r :
           IF r.val = Null
           THEN Ok([error |-> "Service '" \o Arg(args, "service") \o "' not found"], r.reqs)
           ELSE r)

caseGetAllIncidents(net, args) ==
    Await(getAllCurrentIncidents(net, <<>>), LAMBDA r :
      Ok([total_incidents |-> Len(r.val), incidents |-> r.val], r.reqs))

caseSearchService(net, args) ==
    IF ~Truthy(Arg(args, "service_name"))
    THEN Err("service_name parameter is required", <<>>)
    ELSE Await(searchService(net, <<>>, Arg(args, "service_name")), LAMBDA r :
           IF r.val = Null
           THEN Ok([error |-> "Service '" \o Arg(args, "service_name") \o "' not found"],
                   r.reqs)
           ELSE r)

caseGetHistoricalIncidents(net, args) ==
    IF ~Truthy(Arg(args, "service")) THEN Err("Service parameter is required", <<>>)
    ELSE Await(getHistoricalIncidents(net, <<>>, Arg(args, "service"),
                                      Arg(args, "start_date"), Arg(args, "end_date"),
                                      Arg(args, "status")),
               LAMBDA r :
                 Ok([service |-> Arg(args, "service"),
                     total_incidents |-> Len(r.val),
                     start_date |-> OrElse(Arg(args, "start_date"), "not specified"),
                     end_date |-> OrElse(Arg(args, "end_date"), "not specified"),
                     status_filter |-> OrElse(Arg(args, "status"), "all"),
                     incidents |-> r.val], r.reqs))

\* without the end_date check
caseGetServiceUptimeUnchecked(net, args) ==
    IF ~Truthy(Arg(args, "service")) THEN Err("Service parameter is required", <<>>)
    ELSE IF ~Truthy(Arg(args, "start_date"))
    THEN Err("start_date parameter is required", <<>>)
    ELSE Await(getServiceUptime(net, <<>>, Arg(args, "service"),
                                Arg(args, "start_date"), Arg(args, "end_date")),
               LAMBDA r :
                 IF r.val = Null
                 THEN Ok([error |-> "Service '" \o Arg(args, "service") \o "' not found"],
                         r.reqs)
                 ELSE r)

caseGetServiceUptime(net, args) ==
    IF ~Truthy(Arg(args, "service")) THEN Err("Service parameter is required", <<>>)
    ELSE IF ~Truthy(Arg(args, "start_date"))
    THEN Err("start_date parameter is required", <<>>)
    ELSE IF ~Truthy(Arg(args, "end_date"))
    THEN Err("end_date parameter is required", <<>>)
    ELSE Await(getServiceUptime(net, <<>>, Arg(args, "service"),
                                Arg(args, "start_date"), Arg(args, "end_date")),
               LAMBDA r :
                 IF r.val = Null
                 THEN Ok([error |-> "Service '" \o Arg(args, "service") \o "' not found"],
                         r.reqs)
                 ELSE r)

caseGetMultiServiceHistory(net, args) ==
    IF "services" \notin DOMAIN args \/ Len(args.services) = 0
    THEN Err("services parameter is required and must be a non-empty array", <<>>)
    ELSE Await(getMultiServiceHistory(net, <<>>, args.services,
                                      Arg(args, "start_date"), Arg(args, "end_date")),
               LAMBDA r :
                 Ok([services |-> args.services,
                     total_incidents |-> SumLengths(r.val),
                     start_date |-> OrElse(Arg(args, "start_date"), "not specified"),
                     end_date |-> OrElse(Arg(args, "end_date"), "not specified"),
                     history |-> r.val], r.reqs))

\* the switch of the CallTool handler
CallToolSwitch(net, name, args) ==
    CASE name = "check_outage" -> caseCheckOutage(net, args)
      [] name = "check_all_outages" -> caseCheckAllOutages(net, args)
      [] name = "get_service_status" -> caseGetServiceStatus(net, args)
      [] name = "get_all_incidents" -> caseGetAllIncidents(net, args)
      [] name = "search_service" -> caseSearchService(net, args)
      [] name = "get_historical_incidents" -> caseGetHistoricalIncidents(net, args)
      [] name = "get_service_uptime" -> caseGetServiceUptime(net, args)
      [] name = "get_multi_service_history" -> caseGetMultiServiceHistory(net, args)
      [] OTHER -> Err("Unknown tool: " \o name, <<>>)

\* what the handler hands back to the transport
Envelope(content, isError, log) ==
    [envelope |-> [content |-> content, isError |-> isError], reqs |-> log,
     escaped |-> FALSE]

\* the catch reporting a fixed message
CallToolFixedMessage(net, name, args) ==
    Bind(CallToolSwitch(net, name, args), LAMBDA r :
      IF r.ok THEN Envelope(r.val, FALSE, r.reqs)
      ELSE Envelope([error |-> "Unknown error occurred"], TRUE, r.reqs))

\* a handler that answers a call it has answered before from memory
CallToolCached(net, name, args) ==
    IF /\ previous.kind = "exchange"
       /\ previous.call.name = name
       /\ previous.call.args = args
    THEN Envelope(previous.reply.envelope.content, previous.reply.envelope.isError, <<>>)
    ELSE Bind(CallToolSwitch(net, name, args), LAMBDA r :
           IF r.ok THEN Envelope(r.val, FALSE, r.reqs)
           ELSE Envelope([error |-> r.msg], TRUE, r.reqs))

\* the CallTool handler: the switch inside try / catch
CallTool(net, name, args) ==
    Bind(CallToolSwitch(net, name, args), LAMBDA r :
      IF r.ok THEN Envelope(r.val, FALSE, r.reqs)
      ELSE Envelope([error |-> r.msg], TRUE, r.reqs))

----------------------------------------------------------------------------
(* The HTTP adapter with bearer-token authentication,                      *)
(* src/unnamed/part_002                                                    *)

\* the end of the run of blanks that starts at position 7, 6 if there is none
BlankRun(authHeader) ==
    IF Len(authHeader) >= 7 /\ IsSpace(CharAt(authHeader, 7))
    THEN CHOOSE k \in 7..Len(authHeader) :
           /\ \A j \in 7..k : IsSpace(CharAt(authHeader, j))
           /\ (k = Len(authHeader) \/ ~IsSpace(CharAt(authHeader, k + 1)))
    ELSE 6

\* authHeader.match(/^Bearer\s+(.+)$/i): the capture group, Null if no match
BearerMatch(authHeader) ==
    Bind(BlankRun(authHeader), LAMBDA run :
      IF \/ Len(authHeader) < 8
         \/ toLowerCase(SubSeq(authHeader, 1, 6)) # "bearer"
         \/ run = 6
      THEN Null
      ELSE IF run < Len(authHeader)
      THEN [group |-> SubSeq(authHeader, run + 1, Len(authHeader))]
      \* only blanks follow the scheme: \s+ gives its last blank back to (.+)
      ELSE [group |-> SubSeq(authHeader, Len(authHeader), Len(authHeader))])

extractBearerToken(authHeader) ==
    IF ~Truthy(authHeader) THEN Undefined
    ELSE Bind(BearerMatch(authHeader), LAMBDA match :
           IF match # Null THEN match.group ELSE Undefined)

NoApiKeyMessage ==
    "No API key provided. Either set STATUSGATOR_API_KEY environment variable or provide Bearer token in Authorization header"

\* without the final throw
getApiKeyUnchecked(authHeader, STATUSGATOR_API_KEY) ==
    Bind(extractBearerToken(authHeader), LAMBDA bearerToken :
      IF Truthy(bearerToken) THEN Ok(bearerToken, <<>>)
      ELSE Ok(STATUSGATOR_API_KEY, <<>>))

\* the environment key tried first
getApiKeyEnvFirst(authHeader, STATUSGATOR_API_KEY) ==
    Bind(extractBearerToken(authHeader), LAMBDA bearerToken :
      IF Truthy(STATUSGATOR_API_KEY) THEN Ok(STATUSGATOR_API_KEY, <<>>)
      ELSE IF Truthy(bearerToken) THEN Ok(bearerToken, <<>>)
      ELSE Err(NoApiKeyMessage, <<>>))

\* Ok(key) or the thrown Error
getApiKey(authHeader, STATUSGATOR_API_KEY) ==
    Bind(extractBearerToken(authHeader), LAMBDA bearerToken :
      IF Truthy(bearerToken) THEN Ok(bearerToken, <<>>)
      ELSE IF Truthy(STATUSGATOR_API_KEY) THEN Ok(STATUSGATOR_API_KEY, <<>>)
      ELSE Err(NoApiKeyMessage, <<>>))

HttpToolNames ==
    <<"check_outage", "check_all_outages", "get_service_status",
      "get_all_incidents", "search_service">>

\* the switch of the tools/call branch: Ok(result) or a thrown Error
HttpToolSwitch(net, toolName, toolArgs) ==
    CASE toolName = "check_outage" ->
           IF ~Truthy(Arg(toolArgs, "service"))
           THEN Err("Service parameter is required", <<>>)
           ELSE checkOutage(net, <<>>, Arg(toolArgs, "service"))
      [] toolName = "check_all_outages" ->
           Await(checkAll(net, <<>>, monitoredServices), LAMBDA r :
             Ok(OutageSummary(r.val, SelectSeq(r.val, LAMBDA c : c.hasOutage)), r.reqs))
      [] toolName = "get_service_status" ->
           IF ~Truthy(Arg(toolArgs, "service"))
           THEN Err("Service parameter is required", <<>>)
           ELSE Await(getServiceStatus(net, <<>>, Arg(toolArgs, "service")), LAMBDA r :
                  IF r.val = Null
                  THEN Ok([error |-> "Service '" \o Arg(toolArgs, "service")
                                        \o "' not found"], r.reqs)
                  ELSE r)
      [] toolName = "get_all_incidents" ->
           Await(getAllCurrentIncidents(net, <<>>), LAMBDA r :
             Ok([total_incidents |-> Len(r.val), incidents |-> r.val], r.reqs))
      [] toolName = "search_service" ->
           IF ~Truthy(Arg(toolArgs, "service_name"))
           THEN Err("service_name parameter is required", <<>>)
           ELSE Await(searchService(net, <<>>, Arg(toolArgs, "service_name")), LAMBDA r :
                  IF r.val = Null
                  THEN Ok([error |-> "Service '" \o Arg(toolArgs, "service_name")
                                        \o "' not found"], r.reqs)
                  ELSE r)
      [] OTHER -> Err("Unknown tool: " \o toolName, <<>>)

HttpResult(code, result) ==
    [status |-> code, body |-> [kind |-> "result", result |-> result]]

HttpError(status, code, message) ==
    [status |-> status, body |-> [kind |-> "error", code |-> code, message |-> message]]

\* an exception on its way to the catch of the route
Thrown(message, log, apiKey) ==
    [thrown |-> TRUE, msg |-> message, reqs |-> log, apiKey |-> apiKey]

\* the tools/call branch: the credential first, then the client and the switch
HttpToolsCall(world, req, STATUSGATOR_API_KEY) ==
    Bind(getApiKey(req.authorization, STATUSGATOR_API_KEY), LAMBDA key :
      IF ~key.ok THEN Thrown(key.msg, <<>>, "")
      ELSE IF "name" \notin DOMAIN req.params
      THEN \* const toolName = request.params.name
           Thrown("Cannot read properties of undefined (reading 'name')", <<>>, "")
      ELSE IF ~Truthy(key.val)
      THEN \* new StatusGatorClient(apiKey)
           Thrown("StatusGator API key is required", <<>>, "")
      ELSE Bind(HttpToolSwitch([world EXCEPT !.apiKey = key.val],
                               req.params.name, req.params.arguments),
                LAMBDA r :
                  IF r.ok THEN [thrown |-> FALSE, result |-> r.val, reqs |-> r.reqs,
                                apiKey |-> key.val]
                  ELSE Thrown(r.msg, r.reqs, key.val)))

\* a branch of the route that needs no credential and no upstream request
Answer(response) == [response |-> response, reqs |-> <<>>, apiKey |-> ""]

\* an unknown method reported by the catch of the route
HttpPostMcpAllInternal(world, req, STATUSGATOR_API_KEY) ==
    CASE req.method = "initialize" ->
           Answer(HttpResult(200, [protocolVersion |-> "2024-11-05",
                                   serverInfo |-> "outage-monitor-mcp"]))
      [] req.method = "notifications/initialized" ->
           Answer([status |-> 200, body |-> [kind |-> "none"]])
      [] req.method = "tools/list" ->
           Answer(HttpResult(200, [tools |-> HttpToolNames]))
      [] req.method = "tools/call" ->
           Bind(HttpToolsCall(world, req, STATUSGATOR_API_KEY), LAMBDA r :
             IF r.thrown
             THEN [response |-> HttpError(500, -32603, r.msg),
                   reqs |-> r.reqs, apiKey |-> r.apiKey]
             ELSE [response |-> HttpResult(200, [content |-> r.result]),
                   reqs |-> r.reqs, apiKey |-> r.apiKey])
      [] OTHER ->
           Answer(HttpError(500, -32603, "Method not found: " \o req.method))

\* app.post('/mcp'): the response, the upstream requests and the key used
HttpPostMcp(world, req, STATUSGATOR_API_KEY) ==
    CASE req.method = "initialize" ->
           Answer(HttpResult(200, [protocolVersion |-> "2024-11-05",
                                   serverInfo |-> "outage-monitor-mcp"]))
      [] req.method = "notifications/initialized" ->
           Answer([status |-> 200, body |-> [kind |-> "none"]])
      [] req.method = "tools/list" ->
           Answer(HttpResult(200, [tools |-> HttpToolNames]))
      [] req.method = "tools/call" ->
           Bind(HttpToolsCall(world, req, STATUSGATOR_API_KEY), LAMBDA r :
             IF r.thrown
             THEN [response |-> HttpError(500, -32603, r.msg),
                   reqs |-> r.reqs, apiKey |-> r.apiKey]
             ELSE [response |-> HttpResult(200, [content |-> r.result]),
                   reqs |-> r.reqs, apiKey |-> r.apiKey])
      [] OTHER ->
           Answer(HttpError(404, -32601, "Method not found: " \o req.method))

----------------------------------------------------------------------------
(* The upstream API and the inputs of the calls *)

CatalogIds == {"amazon-web-services", "att", "att-business"}

ServiceName(id) ==
    CASE id = "amazon-web-services" -> "Amazon Web Services"
      [] id = "att" -> "AT&T"
      [] OTHER -> "AT&T Business"

\* orders in which GET /services may list the services
Listings ==
    {<<>>, <<"amazon-web-services", "att">>, <<"att-business", "att">>}

Statuses == {"operational", "up", "down", "Operational"}

Listed(ids, status) ==
    [k \in 1..Len(ids) |-> [id |-> ids[k], name |-> ServiceName(ids[k]), status |-> status]]

Incident(id, status, created, resolved) ==
    [id |-> id, status |-> status, created_at |-> created, resolved_at |-> resolved]

OpenFeed ==
    <<Incident("i1", "investigating", "2025-01-02T08:00:00Z", Undefined),
      Incident("i2", "resolved", "2025-01-01T10:00:00Z", "2025-01-01T11:00:00Z")>>

Feeds == {<<>>, OpenFeed}

\* incidents of the history checks: two of them at the same instant, written
\* in the two accepted forms
HistoryPool ==
    {Incident("h1", "resolved", "2025-01-01T10:00:00Z", "2025-01-01T11:00:00Z"),
     Incident("h2", "Investigating", "2025-01-02T00:00:00Z", Undefined),
     Incident("h3", "resolved", "2025-01-02", "2025-01-02T00:30:00Z"),
     Incident("h4", "Resolved", "2025-01-03T12:00:00Z", "2025-01-03T12:45:00Z")}

HistoryFeeds ==
    {f \in UNION {[1..n -> HistoryPool] : n \in 0..MaxFeedLen} :
        \A i, j \in 1..Len(f) : i # j => f[i].id # f[j].id}

HistoryDates ==
    {Undefined, "", "2025-01-01T10:00:00Z", "2025-01-02", "2025-01-03T12:00:00Z",
     "yesterday"}

HistoryStatuses == {Undefined, "", "RESOLVED", "investigating"}

ServiceArgs == {Undefined, "", " AWS ", "att", "nosuch"}

DateArgs == {Undefined, "2025-01-01"}

\* an arguments object holding the given properties that are not undefined
Args(pairs) ==
    LET present == {k \in 1..Len(pairs) : pairs[k][2] # Undefined}
    IN [key \in {pairs[k][1] : k \in present} |->
          pairs[CHOOSE k \in present : pairs[k][1] = key][2]]

FaultSets == SUBSET (1..MaxFaultPos)
Causes == {"status", "transport"}

Net(faults, cause, apiKey) ==
    [services |-> upstream.services, incidents |-> upstream.incidents,
     faults |-> faults, cause |-> cause, now |-> clock, apiKey |-> apiKey]

\* only the outcomes of requests that were issued belong to a call
Relevant(faults, cause, log) ==
    /\ \A k \in faults : k <= Len(log)
    /\ faults = {} => cause = "status"

NoCall == [kind |-> "none"]
NoReply == [kind |-> "none"]
NoExchange == [kind |-> "none"]

\* no check_all_outages call is being served
NoFanOut ==
    /\ checks = <<>>
    /\ finished = <<>>

\* the callers of the secrets loader
Callers == {"a", "b"}

NotCalling == [pc |-> "idle", op |-> "none", result |-> Null, awaiting |-> 0, entered |-> 0]

\* the secrets loader as the module is loaded: let secretsCache = null,
\* let isLoading = false
SecretsUnloaded ==
    /\ secretsCache = Null
    /\ isLoading = FALSE
    /\ callers = [c \in Callers |-> NotCalling]
    /\ loads = <<>>
    /\ secretString = Undefined
    /\ useSecretsManager = TRUE

NoLoop == [pc |-> "idle"]
NoTracing == [pc |-> "idle"]
NoTraced == [pc |-> "idle", made |-> 0, left |-> 0]
NoInbound == <<>>

\* no loop is running, no request is being traced, nothing is in flight
OthersIdle ==
    /\ loop = NoLoop
    /\ tracing = NoTracing
    /\ traced = NoTraced
    /\ inbound = NoInbound

----------------------------------------------------------------------------
(* The environment: the upstream data changes between requests *)

SetStatus ==
    /\ phase = "idle"
    /\ \E k \in 1..Len(upstream.services), st \in Statuses :
          /\ upstream.services[k].status # st
          /\ upstream' = [upstream EXCEPT !.services[k].status = st]
    /\ UNCHANGED <<envKey, phase, call, reply, sent, usedKey, clock,
                   previous, fanVars, secretsVars, otherVars>>

Relist ==
    /\ phase = "idle"
    /\ \E ids \in Listings :
          /\ upstream.services # Listed(ids, "operational")
          /\ upstream' = [upstream EXCEPT !.services = Listed(ids, "operational")]
    /\ UNCHANGED <<envKey, phase, call, reply, sent, usedKey, clock,
                   previous, fanVars, secretsVars, otherVars>>

SetFeed ==
    /\ phase = "idle"
    /\ \E id \in {"amazon-web-services", "att"}, f \in Feeds :
          /\ upstream.incidents[id] # f
          /\ upstream' = [upstream EXCEPT !.incidents[id] = f]
    /\ UNCHANGED <<envKey, phase, call, reply, sent, usedKey, clock,
                   previous, fanVars, secretsVars, otherVars>>

\* the transport has written the response; the request is over
Deliver ==
    /\ phase = "done"
    /\ phase' = "idle"
    /\ call' = NoCall
    /\ reply' = NoReply
    /\ sent' = <<>>
    /\ usedKey' = ""
    /\ UNCHANGED <<upstream, envKey, clock, previous, fanVars, secretsVars, otherVars>>

----------------------------------------------------------------------------
(* Specification Spec: the MCP dispatcher behind createServer(apiKey) *)

DispatchCalls ==
    {[name |-> n, args |-> Args(<<<<"service", s>>>>)] :
        n \in {"check_outage", "get_service_status"}, s \in ServiceArgs}
    \cup {[name |-> "search_service", args |-> Args(<<<<"service_name", s>>>>)] :
            s \in ServiceArgs \cup {"Amazon"}}
    \cup {[name |-> "get_historical_incidents",
           args |-> Args(<<<<"service", s>>, <<"start_date", a>>, <<"end_date", b>>,
                           <<"status", st>>>>)] :
            s \in ServiceArgs, a \in DateArgs, b \in DateArgs, st \in {Undefined, "Resolved"}}
    \cup {[name |-> "get_service_uptime",
           args |-> Args(<<<<"service", s>>, <<"start_date", a>>, <<"end_date", b>>>>)] :
            s \in ServiceArgs, a \in DateArgs, b \in {Undefined, "2025-01-02"}}
    \cup {[name |-> "get_multi_service_history",
           args |-> Args(<<<<"services", l>>, <<"start_date", a>>>>)] :
            l \in {Undefined}, a \in DateArgs}
    \cup {[name |-> "get_multi_service_history",
           args |-> [services |-> l] @@ Args(<<<<"start_date", a>>>>)] :
            l \in {<<>>, <<"nosuch", "att">>}, a \in DateArgs}
    \cup {[name |-> n, args |-> Args(<<>>)] :
            n \in {"check_all_outages", "get_all_incidents", "restart_service"}}

CallToolRequest ==
    /\ phase = "idle"
    /\ \E c \in DispatchCalls, faults \in FaultSets, cause \in Causes :
          \E r \in {CallTool(Net(faults, cause, envKey), c.name, c.args)} :
             /\ Relevant(faults, cause, r.reqs)
             /\ call' = [kind |-> "tool", name |-> c.name, args |-> c.args,
                         faults |-> faults, cause |-> cause]
             /\ reply' = [kind |-> "tool", envelope |-> r.envelope, escaped |-> r.escaped]
             /\ sent' = r.reqs
    /\ phase' = "done"
    /\ usedKey' = envKey
    /\ UNCHANGED <<upstream, envKey, clock, previous, fanVars, secretsVars, otherVars>>

Init ==
    /\ upstream = [services |-> Listed(<<"amazon-web-services", "att">>, "operational"),
                   incidents |-> [id \in CatalogIds |-> <<>>]]
    /\ envKey = "env-key"
    /\ phase = "idle"
    /\ call = NoCall
    /\ reply = NoReply
    /\ sent = <<>>
    /\ usedKey = ""
    /\ clock = 0
    /\ previous = NoExchange
    /\ NoFanOut
    /\ SecretsUnloaded
    /\ OthersIdle

Next == CallToolRequest \/ Deliver \/ SetStatus \/ Relist \/ SetFeed

Spec == Init /\ [][Next]_vars


----------------------------------------------------------------------------
(* Properties of the dispatcher and of the client operations behind it     *)

ToolDone(name) == phase = "done" /\ call.kind = "tool" /\ call.name = name

Failed(k) == k \in call.faults

UrlOf(kind, id) == baseUrl \o EndpointPath(kind, id)

\* the listed services some request of the call asked the details of, and
\* was answered
DetailsServed ==
    {k \in 1..Len(upstream.services) :
        \E p \in 1..Len(sent) :
            /\ sent[p].url = UrlOf("detail", upstream.services[k].id)
            /\ ~Failed(p)}

\* no listed service carries the name, as an id or a display name, in full
\* or as a part, under its alias or as typed
Unresolvable(name) ==
    LET typed == trim(toLowerCase(name))
        key == IF typed \in serviceMapKeys THEN serviceMap(typed) ELSE typed
    IN \A k \in 1..Len(upstream.services) :
          /\ ~includes(upstream.services[k].id, key)
          /\ ~includes(toLowerCase(upstream.services[k].name), key)

NotFoundPayload(name) == [error |-> "Service '" \o name \o "' not found"]

\* C3: whenever checkOutage obtains a status snapshot, hasOutage is false
\* exactly when the upstream status is the literal "operational" or "up",
\* whatever the incident list holds.
C3_HasOutageIffNotOperational ==
    (ToolDone("check_outage") /\ ~Failed(1)) =>
        \A k \in DetailsServed :
            LET st == upstream.services[k].status
                out == reply.envelope.content
            IN /\ ~reply.envelope.isError
               /\ out.status = st
               /\ out.hasOutage = (st \notin {"operational", "up"})

C3_Witness ==
    /\ ToolDone("check_outage")
    /\ ~reply.envelope.isError
    /\ reply.envelope.content.status = "up"
    /\ reply.envelope.content.hasOutage = FALSE
    /\ reply.envelope.content.incidents # <<>>

\* C4: checkOutage never raises, and whenever no snapshot could be built
\* (list request failed, details request failed or answered 404) it returns
\* {service: input, hasOutage: false, status: "unknown", incidents: []}.
C4_CheckOutageNeverRaises ==
    (ToolDone("check_outage") /\ Truthy(Arg(call.args, "service"))) =>
        /\ ~reply.escaped
        /\ ~reply.envelope.isError
        /\ (Failed(1) \/ DetailsServed = {}) =>
              reply.envelope.content =
                  [service |-> call.args.service, hasOutage |-> FALSE,
                   status |-> "unknown", incidents |-> <<>>]

C4_Witness ==
    /\ ToolDone("check_outage")
    /\ Len(sent) = 3 /\ ~Failed(1) /\ Failed(2) /\ ~Failed(3)
    /\ Arg(call.args, "service") = "att"
    /\ upstream.services[2].status = "down"
    /\ reply.envelope.content.status = "unknown"
    /\ reply.envelope.content.hasOutage = FALSE

\* the required argument a call lacks, if any
LacksRequired ==
    \/ /\ call.name \in {"check_outage", "get_service_status",
                         "get_historical_incidents", "get_service_uptime"}
       /\ Arg(call.args, "service") = Undefined
    \/ call.name = "search_service" /\ Arg(call.args, "service_name") = Undefined
    \/ /\ call.name = "get_service_uptime"
       /\ Undefined \in {Arg(call.args, "start_date"), Arg(call.args, "end_date")}
    \/ /\ call.name = "get_multi_service_history"
       /\ ("services" \in DOMAIN call.args => call.args.services = <<>>)

KnownTools ==
    {"check_outage", "check_all_outages", "get_service_status", "get_all_incidents",
     "search_service", "get_historical_incidents", "get_service_uptime",
     "get_multi_service_history"}

\* C5: a tool call that lacks a required argument yields an error-flagged
\* envelope and issues no upstream request.
C5_MissingArgumentIsError ==
    (phase = "done" /\ call.kind = "tool" /\ LacksRequired) =>
        /\ reply.envelope.isError
        /\ sent = <<>>

C5_Witness ==
    /\ ToolDone("get_service_uptime")
    /\ Truthy(Arg(call.args, "service"))
    /\ Truthy(Arg(call.args, "start_date"))
    /\ Arg(call.args, "end_date") = Undefined
    /\ reply.envelope.isError
    /\ sent = <<>>

\* the message of the exception that reaches the handler's catch, "" if none
\* does: a validation failure, an unknown tool, or the failed list request of
\* search_service
RaisedMessage ==
    LET a(k) == Arg(call.args, k)
        n == call.name
    IN CASE n \notin KnownTools -> "Unknown tool: " \o n
         [] /\ n \in {"check_outage", "get_service_status",
                      "get_historical_incidents", "get_service_uptime"}
            /\ a("service") \in {Undefined, ""} -> "Service parameter is required"
         [] n = "search_service" /\ a("service_name") \in {Undefined, ""} ->
              "service_name parameter is required"
         [] n = "get_service_uptime" /\ a("start_date") \in {Undefined, ""} ->
              "start_date parameter is required"
         [] n = "get_service_uptime" /\ a("end_date") \in {Undefined, ""} ->
              "end_date parameter is required"
         [] /\ n = "get_multi_service_history"
            /\ ("services" \in DOMAIN call.args => call.args.services = <<>>) ->
              "services parameter is required and must be a non-empty array"
         [] n = "search_service" /\ Failed(1) /\ call.cause = "status" ->
              "Failed to fetch from StatusGator: StatusGator API error: 503 Service Unavailable"
         [] n = "search_service" /\ Failed(1) ->
              "Failed to fetch from StatusGator: network timeout"
         [] OTHER -> ""

\* C6: the CallTool handler never lets an exception escape; it returns one
\* envelope, and when an exception reached the handler that envelope is
\* error-flagged and carries {error: <the exception's message>}.
C6_NoExceptionEscapes ==
    (phase = "done" /\ call.kind = "tool") =>
        /\ ~reply.escaped
        /\ RaisedMessage # "" =>
              /\ reply.envelope.isError
              /\ reply.envelope.content = [error |-> RaisedMessage]

C6_Witness ==
    /\ ToolDone("search_service")
    /\ Failed(1) /\ call.cause = "transport"
    /\ ~reply.escaped
    /\ reply.envelope.isError
    /\ reply.envelope.content =
          [error |-> "Failed to fetch from StatusGator: network timeout"]

\* C7: not-found of get_service_status and search_service is a non-error
\* envelope carrying {error: "Service '<name>' not found"}; a missing
\* required argument or an unknown tool name is an error-flagged envelope.
C7_NotFoundIsNotAnError ==
    (phase = "done" /\ call.kind = "tool") =>
        /\ ( /\ call.name = "get_service_status"
             /\ Truthy(Arg(call.args, "service"))
             /\ Unresolvable(call.args.service) ) =>
                /\ ~reply.envelope.isError
                /\ reply.envelope.content = NotFoundPayload(call.args.service)
        /\ ( /\ call.name = "search_service"
             /\ Truthy(Arg(call.args, "service_name"))
             /\ ~Failed(1)
             /\ Unresolvable(call.args.service_name) ) =>
                /\ ~reply.envelope.isError
                /\ reply.envelope.content = NotFoundPayload(call.args.service_name)
        /\ (LacksRequired \/ call.name \notin KnownTools) => reply.envelope.isError

C7_Witness ==
    /\ ToolDone("get_service_status")
    /\ Arg(call.args, "service") = "nosuch"
    /\ Len(upstream.services) = 2
    /\ call.faults = {}
    /\ ~reply.envelope.isError
    /\ reply.envelope.content = NotFoundPayload("nosuch")

\* C8 as claimed: when the service name cannot be resolved, the
\* get_historical_incidents and get_service_uptime tool calls end in an
\* error-flagged envelope.
C8_UnresolvableIsHardError ==
    ( /\ phase = "done" /\ call.kind = "tool"
      /\ call.name \in {"get_historical_incidents", "get_service_uptime"}
      /\ ~LacksRequired
      /\ Truthy(Arg(call.args, "service"))
      /\ ~Failed(1)
      /\ Unresolvable(call.args.service) ) =>
          reply.envelope.isError

\* C8 amended: when the service name cannot be resolved, the not-found error
\* raised inside getHistoricalIncidents / getServiceUptime is caught there:
\* get_historical_incidents ends in a non-error envelope with an empty
\* incident list and get_service_uptime in a non-error envelope carrying
\* {error: "Service '<name>' not found"}; only the list request is issued.
C8_UnresolvableIsSwallowed ==
    ( /\ phase = "done" /\ call.kind = "tool"
      /\ Truthy(Arg(call.args, "service"))
      /\ ~Failed(1)
      /\ Unresolvable(call.args.service) ) =>
          /\ call.name = "get_historical_incidents" =>
                /\ ~reply.envelope.isError
                /\ reply.envelope.content.incidents = <<>>
                /\ reply.envelope.content.total_incidents = 0
                /\ Len(sent) = 1
          /\ (call.name = "get_service_uptime" /\ ~LacksRequired) =>
                /\ ~reply.envelope.isError
                /\ reply.envelope.content = NotFoundPayload(call.args.service)
                /\ Len(sent) = 1

C8_Witness ==
    /\ ToolDone("get_historical_incidents")
    /\ Arg(call.args, "service") = "nosuch"
    /\ Len(upstream.services) = 2
    /\ ~Failed(1)
    /\ ~reply.envelope.isError
    /\ reply.envelope.content.total_incidents = 0


\* the elements of a sequence
Range(seq) == {seq[k] : k \in 1..Len(seq)}

\* the names the catalog declares
DeclaredTools == {TOOLS[k].name : k \in 1..Len(TOOLS)}

\* the fields the catalog lists as required for a declared tool
RequiredOf(name) ==
    Range(TOOLS[CHOOSE k \in 1..Len(TOOLS) : TOOLS[k].name = name].required)

UnknownToolPayload(name) == [error |-> "Unknown tool: " \o name]

\* C15: a call of a declared tool never ends in 'Unknown tool', a call that
\* does not end in 'Unknown tool' is the call of a declared tool, and a call
\* of a declared tool that lacks a field listed as required ends in an
\* error-flagged envelope before any upstream request is issued.
C15_CatalogMatchesDispatcher ==
    (phase = "done" /\ call.kind = "tool") =>
        /\ call.name \in DeclaredTools =>
              reply.envelope.content # UnknownToolPayload(call.name)
        /\ reply.envelope.content # UnknownToolPayload(call.name) =>
              call.name \in DeclaredTools
        /\ call.name \in DeclaredTools =>
              \A k \in RequiredOf(call.name) :
                  k \notin DOMAIN call.args =>
                      /\ reply.envelope.isError
                      /\ sent = <<>>

C15_Witness ==
    /\ ToolDone("get_service_uptime")
    /\ RequiredOf(call.name) \subseteq DOMAIN call.args
    /\ Arg(call.args, "service") = " AWS "
    /\ Len(sent) = 3
    /\ ~reply.envelope.isError
    /\ reply.envelope.content.service_id = "amazon-web-services"

----------------------------------------------------------------------------
(* Specification SpecHttp: POST /mcp on the HTTP adapter.  The environment *)
(* key is fixed when the process starts.                                   *)

\* Authorization header values as Node hands them over (no surrounding
\* blanks); Undefined when the header is absent
AuthHeaders ==
    {Undefined, "", "Bearer k1", "bearer   k2", "Basic k1", "Bearer", "Bearerk1"}

\* the bearer token each of them carries, Undefined when it carries none
TokenOf(h) ==
    CASE h = "Bearer k1" -> "k1"
      [] h = "bearer   k2" -> "k2"
      [] OTHER -> Undefined

HttpMethods ==
    {"initialize", "notifications/initialized", "tools/list", "tools/call",
     "resources/list"}

HttpParams ==
    {[name |-> n, arguments |-> Args(<<<<"service", s>>>>)] :
        n \in {"check_outage", "get_service_status"}, s \in {Undefined, " AWS ", "nosuch"}}
    \cup {[name |-> "search_service", arguments |-> Args(<<<<"service_name", s>>>>)] :
            s \in {Undefined, "att"}}
    \cup {[name |-> n, arguments |-> Args(<<>>)] :
            n \in {"check_all_outages", "get_all_incidents", "get_service_uptime"}}
    \cup {Args(<<>>)}

HttpRequest ==
    /\ phase = "idle"
    /\ \E m \in HttpMethods, h \in AuthHeaders, ps \in HttpParams,
          faults \in FaultSets, cause \in Causes :
          \E r \in {HttpPostMcp(Net(faults, cause, ""),
                                  [method |-> m, authorization |-> h, params |-> ps],
                                  envKey)} :
             /\ m # "tools/call" => ps = Args(<<>>)
             /\ Relevant(faults, cause, r.reqs)
             /\ call' = [kind |-> "http", method |-> m, authorization |-> h,
                         params |-> ps, faults |-> faults, cause |-> cause]
             /\ reply' = [kind |-> "http", response |-> r.response]
             /\ sent' = r.reqs
             /\ usedKey' = r.apiKey
    /\ phase' = "done"
    /\ UNCHANGED <<upstream, envKey, clock, previous, fanVars, secretsVars, otherVars>>

InitHttp ==
    /\ upstream = [services |-> Listed(<<"amazon-web-services", "att">>, "operational"),
                   incidents |-> [id \in CatalogIds |-> <<>>]]
    /\ envKey \in {"", "env-key"}
    /\ phase = "idle"
    /\ call = NoCall
    /\ reply = NoReply
    /\ sent = <<>>
    /\ usedKey = ""
    /\ clock = 0
    /\ previous = NoExchange
    /\ NoFanOut
    /\ SecretsUnloaded
    /\ OthersIdle

NextHttp == HttpRequest \/ Deliver \/ SetStatus

SpecHttp == InitHttp /\ [][NextHttp]_vars

HttpDone(m) == phase = "done" /\ call.kind = "http" /\ call.method = m

\* C1: with no bearer token and no environment key, tools/call fails with
\* the 'No API key provided' error and issues no upstream request, while
\* initialize, notifications/initialized and tools/list succeed.
C1_NoCredentialOnlyFailsToolsCall ==
    ( /\ phase = "done" /\ call.kind = "http"
      /\ TokenOf(call.authorization) = Undefined
      /\ envKey = "" ) =>
        /\ call.method = "tools/call" =>
              /\ reply.response.body.kind = "error"
              /\ SubSeq(reply.response.body.message, 1, 19) = "No API key provided"
              /\ sent = <<>>
              /\ usedKey = ""
        /\ call.method \in {"initialize", "tools/list"} =>
              /\ reply.response.status = 200
              /\ reply.response.body.kind = "result"
        /\ call.method = "notifications/initialized" =>
              /\ reply.response.status = 200
              /\ reply.response.body.kind = "none"

C1_Witness ==
    /\ HttpDone("tools/call")
    /\ call.authorization = "Basic k1"
    /\ envKey = ""
    /\ "name" \in DOMAIN call.params
    /\ reply.response.body.kind = "error"
    /\ sent = <<>>

\* C2: the key handed to the upstream client by tools/call is the bearer
\* token when the request carries one, else the environment key when one is
\* configured, else the request is rejected; every upstream request of the
\* call carries that key.
C2_BearerTokenTakesPrecedence ==
    (HttpDone("tools/call") /\ "name" \in DOMAIN call.params) =>
        LET token == TokenOf(call.authorization)
            expected == IF token # Undefined THEN token ELSE envKey
        IN /\ usedKey = expected
           /\ \A p \in 1..Len(sent) : sent[p].authorization = "Bearer " \o expected
           /\ expected = "" =>
                 /\ reply.response.body.kind = "error"
                 /\ sent = <<>>

C2_Witness ==
    /\ HttpDone("tools/call")
    /\ call.authorization = "bearer   k2"
    /\ envKey = "env-key"
    /\ usedKey = "k2"
    /\ Len(sent) = 3
    /\ sent[3].authorization = "Bearer k2"
    /\ reply.response.body.kind = "result"

\* the message of the failure raised while a tools/call request is handled,
\* "" when none is: no credential, no params, a missing argument, a tool the
\* adapter has no branch for, or the failed catalog request of search_service
HttpFailure ==
    LET a(k) == Arg(call.params.arguments, k)
    IN CASE TokenOf(call.authorization) = Undefined /\ envKey = "" -> NoApiKeyMessage
         [] "name" \notin DOMAIN call.params ->
              "Cannot read properties of undefined (reading 'name')"
         [] /\ call.params.name \in {"check_outage", "get_service_status"}
            /\ a("service") \in {Undefined, ""} -> "Service parameter is required"
         [] call.params.name = "search_service" /\ a("service_name") \in {Undefined, ""} ->
              "service_name parameter is required"
         [] call.params.name \notin {"check_outage", "check_all_outages",
                                     "get_service_status", "get_all_incidents",
                                     "search_service"} ->
              "Unknown tool: " \o call.params.name
         [] call.params.name = "search_service" /\ Failed(1) /\ call.cause = "status" ->
              "Failed to fetch from StatusGator: StatusGator API error: 503 Service Unavailable"
         [] call.params.name = "search_service" /\ Failed(1) ->
              "Failed to fetch from StatusGator: network timeout"
         [] OTHER -> ""

\* C13: a POST /mcp request whose method is none of initialize,
\* notifications/initialized, tools/list and tools/call is answered with the
\* JSON-RPC error -32601; a failure raised while tools/call is handled is
\* answered with the error -32603 carrying the failure's message, and a
\* tools/call without failure with a result; no response is both.
C13_MethodsAreClassified ==
    (phase = "done" /\ call.kind = "http") =>
        /\ reply.response.body.kind \in {"result", "error", "none"}
        /\ call.method \notin {"initialize", "notifications/initialized",
                               "tools/list", "tools/call"} =>
              /\ reply.response.body.kind = "error"
              /\ reply.response.body.code = -32601
        /\ call.method = "tools/call" =>
              IF HttpFailure # ""
              THEN /\ reply.response.body.kind = "error"
                   /\ reply.response.body.code = -32603
                   /\ reply.response.body.message = HttpFailure
              ELSE /\ reply.response.body.kind = "result"
                   /\ reply.response.status = 200

C13_Witness ==
    /\ HttpDone("tools/call")
    /\ "name" \in DOMAIN call.params
    /\ call.params.name = "search_service"
    /\ call.authorization = "Bearer k1"
    /\ Len(sent) = 1 /\ Failed(1) /\ call.cause = "transport"
    /\ reply.response.status = 500
    /\ reply.response.body.kind = "error"
    /\ reply.response.body.code = -32603
    /\ reply.response.body.message = "Failed to fetch from StatusGator: network timeout"

----------------------------------------------------------------------------
(* Specification SpecHistory: getHistoricalIncidents over the incident     *)
(* feeds of one service, in every order upstream may return them.          *)

HistoryRequest ==
    /\ phase = "idle"
    /\ \E name \in {"att", "nosuch"}, a \in HistoryDates, b \in HistoryDates,
          st \in HistoryStatuses, faults \in FaultSets :
          \E r \in {getHistoricalIncidents(Net(faults, "status", envKey), <<>>,
                                             name, a, b, st)} :
             /\ Relevant(faults, "status", r.reqs)
             /\ call' = [kind |-> "history", service |-> name, start_date |-> a,
                         end_date |-> b, status |-> st, faults |-> faults,
                         cause |-> "status"]
             /\ reply' = [kind |-> "history", ok |-> r.ok, val |-> r.val]
             /\ sent' = r.reqs
    /\ phase' = "done"
    /\ usedKey' = envKey
    /\ UNCHANGED <<upstream, envKey, clock, previous, fanVars, secretsVars, otherVars>>

InitHistory ==
    /\ \E f \in HistoryFeeds :
          upstream = [services |-> Listed(<<"amazon-web-services", "att">>, "operational"),
                      incidents |-> [id \in CatalogIds |->
                                        IF id = "att" THEN f ELSE <<>>]]
    /\ envKey = "env-key"
    /\ phase = "idle"
    /\ call = NoCall
    /\ reply = NoReply
    /\ sent = <<>>
    /\ usedKey = ""
    /\ clock = 0
    /\ previous = NoExchange
    /\ NoFanOut
    /\ SecretsUnloaded
    /\ OthersIdle

NextHistory == HistoryRequest \/ Deliver

SpecHistory == InitHistory /\ [][NextHistory]_vars

\* the instant a timestamp denotes, in minutes after 2025-01-01T00:00Z;
\* -1 when it denotes none
InstantOf(d) ==
    CASE d = "2025-01-01T10:00:00Z" -> 600
      [] d = "2025-01-02T00:00:00Z" -> 1440
      [] d = "2025-01-02" -> 1440
      [] d = "2025-01-03T12:00:00Z" -> 3600
      [] OTHER -> -1

Given(v) == v \notin {Undefined, ""}

SameStatus(a, b) ==
    \/ a \in {"resolved", "Resolved"} /\ b = "RESOLVED"
    \/ a = "Investigating" /\ b = "investigating"

InQuery(i) ==
    /\ Given(call.start_date) =>
          /\ InstantOf(call.start_date) # -1
          /\ InstantOf(i.created_at) >= InstantOf(call.start_date)
    /\ Given(call.end_date) =>
          /\ InstantOf(call.end_date) # -1
          /\ InstantOf(i.created_at) <= InstantOf(call.end_date)
    /\ Given(call.status) => SameStatus(i.status, call.status)

HistoryServed ==
    /\ phase = "done" /\ call.kind = "history"
    /\ call.service = "att" /\ call.faults = {}

\* C9: for a resolvable service whose incident request succeeds,
\* getHistoricalIncidents returns exactly the upstream incidents created
\* within the inclusive bounds and with the status asked for.
C9_ExactlyTheIncidentsInRange ==
    HistoryServed =>
        /\ reply.ok
        /\ Range(reply.val) = {i \in Range(upstream.incidents["att"]) : InQuery(i)}
        /\ Len(reply.val) = Cardinality(Range(reply.val))

C9_Witness ==
    /\ HistoryServed
    /\ call.start_date = "2025-01-02" /\ call.end_date = "2025-01-02"
    /\ call.status = Undefined
    /\ Len(upstream.incidents["att"]) = 3
    /\ Len(reply.val) = 2
    /\ {i.id : i \in Range(reply.val)} = {"h2", "h3"}

\* C10: the sequence getHistoricalIncidents returns is sorted newest-first
\* by created_at, whatever the order upstream returned the incidents in.
C10_NewestFirst ==
    (phase = "done" /\ call.kind = "history") =>
        \A i, j \in 1..Len(reply.val) :
            i < j => InstantOf(reply.val[i].created_at) >= InstantOf(reply.val[j].created_at)

C10_Witness ==
    /\ HistoryServed
    /\ ~Given(call.start_date) /\ ~Given(call.end_date) /\ ~Given(call.status)
    /\ [k \in 1..Len(upstream.incidents["att"]) |-> upstream.incidents["att"][k].id]
          = <<"h1", "h2", "h4">>
    /\ [k \in 1..Len(reply.val) |-> reply.val[k].id] = <<"h4", "h2", "h1">>

----------------------------------------------------------------------------
(* Specification SpecMulti: getMultiServiceHistory over lists of names,    *)
(* some resolvable, some not, some given twice.                            *)

AwsFeed == <<Incident("a1", "resolved", "2025-01-02T00:00:00Z", "2025-01-02T01:00:00Z")>>

NameLists ==
    {<<"att">>, <<"att", "nosuch">>, <<"nosuch", "att">>, <<" AWS ", "att">>,
     <<"att", "att">>}

MultiDates == {Undefined, "2025-01-02", "2025-01-03T12:00:00Z"}

MultiHistoryRequest ==
    /\ phase = "idle"
    /\ \E names \in NameLists, a \in MultiDates, b \in MultiDates, faults \in FaultSets :
          \E r \in {getMultiServiceHistory(Net(faults, "status", envKey), <<>>,
                                             names, a, b)} :
             /\ Relevant(faults, "status", r.reqs)
             /\ call' = [kind |-> "multi", services |-> names, start_date |-> a,
                         end_date |-> b, status |-> Undefined, faults |-> faults,
                         cause |-> "status"]
             /\ reply' = [kind |-> "multi", ok |-> r.ok, val |-> r.val]
             /\ sent' = r.reqs
    /\ phase' = "done"
    /\ usedKey' = envKey
    /\ UNCHANGED <<upstream, envKey, clock, previous, fanVars, secretsVars, otherVars>>

InitMulti ==
    /\ \E f \in HistoryFeeds :
          upstream = [services |-> Listed(<<"amazon-web-services", "att">>, "operational"),
                      incidents |-> [id \in CatalogIds |->
                                        CASE id = "att" -> f
                                          [] id = "amazon-web-services" -> AwsFeed
                                          [] OTHER -> <<>>]]
    /\ envKey = "env-key"
    /\ phase = "idle"
    /\ call = NoCall
    /\ reply = NoReply
    /\ sent = <<>>
    /\ usedKey = ""
    /\ clock = 0
    /\ previous = NoExchange
    /\ NoFanOut
    /\ SecretsUnloaded
    /\ OthersIdle

NextMulti == MultiHistoryRequest \/ Deliver

SpecMulti == InitMulti /\ [][NextMulti]_vars

MultiDone == phase = "done" /\ call.kind = "multi"

\* the upstream id a caller-supplied name stands for, Undefined if none
IdNamed(name) ==
    CASE name = "att" -> "att"
      [] name = " AWS " -> "amazon-web-services"
      [] OTHER -> Undefined

\* the positions in the request log of the catalog requests, in order
ListRequests == SelectSeq([p \in 1..Len(sent) |-> p],
                          LAMBDA p : sent[p].url = UrlOf("list", ""))

\* the lookups of the j-th name of the call failed: its catalog request, its
\* resolution or its incident request
LookupFailed(j) ==
    \/ IdNamed(call.services[j]) = Undefined
    \/ Failed(ListRequests[j])
    \/ Failed(ListRequests[j] + 1)

\* the value the mapping holds under a key
ValueUnder(entries, key) ==
    entries[CHOOSE k \in 1..Len(entries) : entries[k][1] = key][2]

\* C11: getMultiServiceHistory returns a mapping keyed by exactly the
\* caller-supplied names; a name whose lookups succeed maps to its service's
\* incidents within the bounds, newest first, and a name whose resolution or
\* lookup fails maps to an empty list, whatever happens to the other names.
C11_KeyedByInputNames ==
    MultiDone =>
        /\ reply.ok
        /\ {reply.val[k][1] : k \in 1..Len(reply.val)} = Range(call.services)
        /\ Len(reply.val) = Cardinality(Range(call.services))
        /\ Len(ListRequests) = Len(call.services)
        /\ \A j \in 1..Len(call.services) :
              (\A l \in (j + 1)..Len(call.services) : call.services[l] # call.services[j]) =>
                 LET got == ValueUnder(reply.val, call.services[j])
                 IN IF LookupFailed(j) THEN got = <<>>
                    ELSE /\ Range(got) =
                              {i \in Range(upstream.incidents[IdNamed(call.services[j])]) :
                                  InQuery(i)}
                         /\ Len(got) = Cardinality(Range(got))

C11_Witness ==
    /\ MultiDone
    /\ call.services = <<" AWS ", "att">>
    /\ call.start_date = "2025-01-02" /\ call.end_date = Undefined
    /\ call.faults = {2}
    /\ Len(sent) = 4
    /\ Len(upstream.incidents["att"]) = 3
    /\ reply.val[1] = <<" AWS ", <<>>>>
    /\ reply.val[2][1] = "att"
    /\ Len(reply.val[2][2]) = 2

----------------------------------------------------------------------------
(* Specification SpecUptime: getServiceUptime over the incident feeds of   *)
(* one service and over periods that are proper, empty, reversed or not    *)
(* dates at all.                                                           *)

UptimePool ==
    {Incident("u1", "resolved", "2025-01-01T10:00:00Z", "2025-01-01T11:00:00Z"),
     Incident("u2", "investigating", "2025-01-01T12:00:00Z", Undefined),
     Incident("u3", "resolved", "2025-01-01T20:00:00Z", "2025-01-01T20:01:30Z"),
     Incident("u4", "resolved", "2025-01-03T12:00:00Z", "2025-01-03T12:45:00Z"),
     \* down for 25 hours, over the time of u3 and past the end of the day
     Incident("u5", "resolved", "2025-01-01T12:30:00Z", "2025-01-02T13:30:00Z")}

UptimeFeeds ==
    {f \in UNION {[1..n -> UptimePool] : n \in 0..MaxFeedLen} :
        \A i, j \in 1..Len(f) : i # j => f[i].id # f[j].id}

UptimeDates == {"2025-01-01", "2025-01-02", "2025-01-04", "yesterday"}

UptimeRequest ==
    /\ phase = "idle"
    /\ \E name \in {"att", "nosuch"}, a \in UptimeDates, b \in UptimeDates,
          faults \in FaultSets :
          \E r \in {getServiceUptime(Net(faults, "status", envKey), <<>>, name, a, b)} :
             /\ Relevant(faults, "status", r.reqs)
             /\ call' = [kind |-> "uptime", service |-> name, start_date |-> a,
                         end_date |-> b, faults |-> faults, cause |-> "status"]
             /\ reply' = [kind |-> "uptime", ok |-> r.ok, val |-> r.val]
             /\ sent' = r.reqs
    /\ phase' = "done"
    /\ usedKey' = envKey
    /\ UNCHANGED <<upstream, envKey, clock, previous, fanVars, secretsVars, otherVars>>

InitUptime ==
    /\ \E f \in UptimeFeeds :
          upstream = [services |-> Listed(<<"amazon-web-services", "att">>, "operational"),
                      incidents |-> [id \in CatalogIds |->
                                        IF id = "att" THEN f ELSE <<>>]]
    /\ envKey = "env-key"
    /\ phase = "idle"
    /\ call = NoCall
    /\ reply = NoReply
    /\ sent = <<>>
    /\ usedKey = ""
    /\ clock = 0
    /\ previous = NoExchange
    /\ NoFanOut
    /\ SecretsUnloaded
    /\ OthersIdle

NextUptime == UptimeRequest \/ Deliver

SpecUptime == InitUptime /\ [][NextUptime]_vars

\* the minute a period bound denotes, counted from 2025-01-01T00:00Z; -1 when
\* it is not a date
BoundMinute(d) ==
    CASE d = "2025-01-01" -> 0
      [] d = "2025-01-02" -> 1440
      [] d = "2025-01-04" -> 4320
      [] OTHER -> -1

\* the minute an incident of the pool was created at
CreatedMinute(i) ==
    CASE i.id = "u1" -> 600
      [] i.id = "u2" -> 720
      [] i.id = "u3" -> 1200
      [] i.id = "u5" -> 750
      [] OTHER -> 3600

\* the seconds an incident of the pool was down for, 0 while unresolved
DownSeconds(i) ==
    CASE i.id = "u1" -> 3600
      [] i.id = "u2" -> 0
      [] i.id = "u3" -> 90
      [] i.id = "u5" -> 90000
      [] OTHER -> 2700

RECURSIVE TotalDown(_)
TotalDown(S) ==
    IF S = {} THEN 0
    ELSE LET i == CHOOSE x \in S : TRUE IN DownSeconds(i) + TotalDown(S \ {i})

\* the incidents of the feed created within the period of the call
InPeriod ==
    {i \in Range(upstream.incidents["att"]) :
        /\ BoundMinute(call.start_date) # -1 /\ BoundMinute(call.end_date) # -1
        /\ CreatedMinute(i) >= BoundMinute(call.start_date)
        /\ CreatedMinute(i) <= BoundMinute(call.end_date)}

\* the seconds of the period, 0 or less when it is empty, reversed or not a
\* period at all
PeriodSeconds ==
    IF BoundMinute(call.start_date) = -1 \/ BoundMinute(call.end_date) = -1 THEN 0
    ELSE 60 * (BoundMinute(call.end_date) - BoundMinute(call.start_date))

\* h hundredths of a percent is the uptime share rounded to two decimals
IsRoundedShare(h) ==
    IF PeriodSeconds <= 0 THEN h = 10000
    ELSE \* the share lost, 10000 - h, is within half a hundredth of
         \* down / period * 10000
         /\ (2 * (10000 - h) - 1) * PeriodSeconds < 2 * TotalDown(InPeriod) * 10000
         /\ 2 * TotalDown(InPeriod) * 10000 <= (2 * (10000 - h) + 1) * PeriodSeconds

UptimeDone == phase = "done" /\ call.kind = "uptime"

----------------------------------------------------------------------------
(* Specification SpecAlias: searchService asked for a short alias and for  *)
(* its long form against the same catalog.                                 *)

CatalogPool ==
    {[id |-> "amazon-web-services", name |-> "Amazon Web Services", status |-> "up"],
     [id |-> "t-mobile", name |-> "T-Mobile", status |-> "up"],
     [id |-> "google-cloud", name |-> "Google Cloud", status |-> "up"],
     [id |-> "google-cloud-storage", name |-> "Google Cloud Storage", status |-> "up"],
     [id |-> "microsoft-azure", name |-> "Microsoft Azure", status |-> "up"],
     [id |-> "azure-devops", name |-> "Azure DevOps", status |-> "up"]}

Catalogs ==
    {c \in UNION {[1..n -> CatalogPool] : n \in 0..MaxCatalogLen} :
        \A i, j \in 1..Len(c) : i # j => c[i].id # c[j].id}

\* a short alias as a caller may type it, and its long form
AliasPairs ==
    {<<"tmobile", "t-mobile">>, <<" TMobile", "T-Mobile ">>,
     <<"aws", "amazon-web-services">>, <<"AWS ", "Amazon-Web-Services">>,
     <<"gcp", "google-cloud">>, <<" GCP ", "google-cloud">>,
     <<"azure", "microsoft-azure">>, <<"Azure", " MICROSOFT-AZURE">>}

AliasSearch ==
    /\ phase = "idle"
    /\ \E pair \in AliasPairs, faults \in FaultSets, cause \in Causes :
          \E short \in {searchService(Net(faults, cause, envKey), <<>>, pair[1])},
             long \in {searchService(Net(faults, cause, envKey), <<>>, pair[2])} :
             /\ Relevant(faults, cause, short.reqs)
             /\ call' = [kind |-> "alias", short |-> pair[1], long |-> pair[2],
                         faults |-> faults, cause |-> cause]
             /\ reply' = [kind |-> "alias",
                          short |-> [ok |-> short.ok, val |-> short.val, msg |-> short.msg],
                          long |-> [ok |-> long.ok, val |-> long.val, msg |-> long.msg]]
             /\ sent' = short.reqs \o long.reqs
    /\ phase' = "done"
    /\ usedKey' = envKey
    /\ UNCHANGED <<upstream, envKey, clock, previous, fanVars, secretsVars, otherVars>>

InitAlias ==
    /\ \E c \in Catalogs :
          upstream = [services |-> c,
                      incidents |-> [id \in {c[k].id : k \in 1..Len(c)} |-> <<>>]]
    /\ envKey = "env-key"
    /\ phase = "idle"
    /\ call = NoCall
    /\ reply = NoReply
    /\ sent = <<>>
    /\ usedKey = ""
    /\ clock = 0
    /\ previous = NoExchange
    /\ NoFanOut
    /\ SecretsUnloaded
    /\ OthersIdle

NextAlias == AliasSearch \/ Deliver

SpecAlias == InitAlias /\ [][NextAlias]_vars

\* C14: against every catalog, searchService answers a short alias as it
\* answers the long form, whatever capitals and surrounding blanks the two
\* are typed with; every monitored name and every value allowed for the
\* service argument of check_outage is a key of the alias map.
C14_AliasesResolveAlike ==
    /\ \A k \in Range(monitoredServices) \cup Range(checkOutageServiceEnum) :
          serviceMap(k) # Undefined
    /\ (phase = "done" /\ call.kind = "alias") => reply.short = reply.long

C14_Witness ==
    /\ phase = "done" /\ call.kind = "alias"
    /\ call.short = " GCP " /\ call.long = "google-cloud"
    /\ call.faults = {}
    /\ Len(upstream.services) = 2
    /\ upstream.services[1].id = "google-cloud-storage"
    /\ upstream.services[2].id = "google-cloud"
    /\ reply.short.ok /\ reply.short.val # Null
    /\ reply.short.val.id = "google-cloud"
    /\ reply.long.val.id = "google-cloud"

----------------------------------------------------------------------------
(* Specification SpecAdapters: one tool call handed to the MCP dispatcher  *)
(* (stdio adapter) and to POST /mcp (HTTP adapter), with the same          *)
(* credential, against the same upstream responses.                        *)

AdapterCalls ==
    {[name |-> n, args |-> Args(<<<<"service", s>>>>)] :
        n \in {"check_outage", "get_service_status", "get_historical_incidents"},
        s \in {Undefined, " AWS ", "nosuch"}}
    \cup {[name |-> "search_service", args |-> Args(<<<<"service_name", s>>>>)] :
            s \in {Undefined, "att"}}
    \cup {[name |-> "get_service_uptime",
           args |-> Args(<<<<"service", "att">>, <<"start_date", "2025-01-01">>,
                           <<"end_date", "2025-01-02">>>>)],
          [name |-> "get_multi_service_history", args |-> [services |-> <<"att">>]]}
    \cup {[name |-> n, args |-> Args(<<>>)] :
            n \in {"check_all_outages", "get_all_incidents", "restart_service"}}

AdapterPair ==
    /\ phase = "idle"
    /\ \E c \in AdapterCalls, faults \in FaultSets, cause \in Causes :
          \E mcp \in {CallTool(Net(faults, cause, envKey), c.name, c.args)},
             http \in {HttpPostMcp(Net(faults, cause, ""),
                                   [method |-> "tools/call", authorization |-> Undefined,
                                    params |-> [name |-> c.name, arguments |-> c.args]],
                                   envKey)} :
             /\ Relevant(faults, cause, mcp.reqs)
             /\ call' = [kind |-> "pair", name |-> c.name, args |-> c.args,
                         faults |-> faults, cause |-> cause]
             /\ reply' = [kind |-> "pair", envelope |-> mcp.envelope,
                          response |-> http.response, requests |-> http.reqs]
             /\ sent' = mcp.reqs
    /\ phase' = "done"
    /\ usedKey' = envKey
    /\ UNCHANGED <<upstream, envKey, clock, previous, fanVars, secretsVars, otherVars>>

InitAdapters ==
    /\ upstream = [services |-> Listed(<<"amazon-web-services", "att">>, "operational"),
                   incidents |-> [id \in CatalogIds |->
                                     IF id = "att" THEN OpenFeed ELSE <<>>]]
    /\ envKey = "env-key"
    /\ phase = "idle"
    /\ call = NoCall
    /\ reply = NoReply
    /\ sent = <<>>
    /\ usedKey = ""
    /\ clock = 0
    /\ previous = NoExchange
    /\ NoFanOut
    /\ SecretsUnloaded
    /\ OthersIdle

NextAdapters == AdapterPair \/ Deliver \/ SetStatus

SpecAdapters == InitAdapters /\ [][NextAdapters]_vars

PairDone == phase = "done" /\ call.kind = "pair"

\* C16 as claimed: tools/list of the HTTP adapter names the tools of the
\* catalog TOOLS, and POST /mcp accepts a tool call exactly when the MCP
\* dispatcher does, with the same result payload.
C16_AdaptersAgree ==
    /\ Range(HttpToolNames) = DeclaredTools
    /\ PairDone =>
          /\ (reply.response.body.kind = "result") = ~reply.envelope.isError
          /\ ~reply.envelope.isError =>
                reply.response.body.result.content = reply.envelope.content

\* the adapters disagree: the dispatcher serves the history of a service,
\* POST /mcp knows no such tool
C16_Witness ==
    /\ PairDone
    /\ call.name = "get_historical_incidents"
    /\ Arg(call.args, "service") = " AWS "
    /\ call.faults = {}
    /\ ~reply.envelope.isError
    /\ Len(sent) = 2
    /\ reply.response.body.kind = "error"
    /\ reply.response.body.message = "Unknown tool: get_historical_incidents"
    /\ reply.requests = <<>>

----------------------------------------------------------------------------
(* The secrets loader, src/src/shared/secrets-loader.js.  Of the names of  *)
(* SECRET_MAPPINGS the model keeps STATUSGATOR_API_KEY; JavaScript runs    *)
(* every stretch of code between two awaits without interruption, so each  *)
(* such stretch is one step.                                               *)

SecretKey == "STATUSGATOR_API_KEY"

\* the secrets object holding `value` under the key, nothing if it is falsy
SecretsOf(value) ==
    [k \in (IF Truthy(value) THEN {SecretKey} ELSE {}) |-> value]

\* secrets[key]
Get(secrets, key) == IF key \in DOMAIN secrets THEN secrets[key] ELSE Undefined

\* loadSecret: the SecretString, or null when there is none or the request
\* fails; its caller tests the value for truth only, and the model writes
\* that null as Undefined
loadSecret(stored, outcome) ==
    IF outcome = "sent" /\ Truthy(stored) THEN stored ELSE Undefined

\* the body of loadPromises: the secret, else the environment variable
loadedSecrets(stored, outcome, env) ==
    Bind(loadSecret(stored, outcome), LAMBDA value :
      IF Truthy(value) THEN SecretsOf(value) ELSE SecretsOf(env))

\* the head of loadSecrets with the cache test left out
loadSecretsHeadUncached(cache, loading) ==
    IF loading THEN "wait" ELSE "load"

\* the head of loadSecrets: use the cache, wait for the load in flight, or load
loadSecretsHead(cache, loading) ==
    CASE cache # Null -> "hit"
      [] loading -> "wait"
      [] OTHER -> "load"

\* what a caller gets from the mapping loadSecrets returns: the mapping, or
\* for getSecret the value under the key, written [value |-> v]
Returned(op, secrets) ==
    IF op = "getSecret" THEN [value |-> Get(secrets, SecretKey)] ELSE secrets

\* the loads that have completed
Completed == {k \in 1..Len(loads) : loads[k].result # Null}

\* loadSecrets() or getSecret(key) is called and runs up to its first await
Enter(c) ==
    /\ callers[c].pc = "idle"
    /\ \E op \in {"loadSecrets", "getSecret"} :
          \E head \in {loadSecretsHead(secretsCache, isLoading)} :
             CASE head = "hit" ->
                    /\ callers' = [callers EXCEPT ![c] =
                                      [pc |-> "returned", op |-> op,
                                       result |-> Returned(op, secretsCache),
                                       awaiting |-> 0, entered |-> Cardinality(Completed)]]
                    /\ UNCHANGED <<secretsCache, isLoading, loads>>
               [] head = "wait" ->
                    /\ callers' = [callers EXCEPT ![c] =
                                      [pc |-> "waiting", op |-> op, result |-> Null,
                                       awaiting |-> Len(loads),
                                       entered |-> Cardinality(Completed)]]
                    /\ UNCHANGED <<secretsCache, isLoading, loads>>
               [] useSecretsManager ->
                    /\ Len(loads) < MaxLoads
                    /\ isLoading' = TRUE
                    /\ loads' = Append(loads, [by |-> c, result |-> Null])
                    /\ callers' = [callers EXCEPT ![c] =
                                      [pc |-> "loading", op |-> op, result |-> Null,
                                       awaiting |-> 0, entered |-> Cardinality(Completed)]]
                    /\ UNCHANGED secretsCache
               [] OTHER ->
                    \* local development: the environment is read at once
                    /\ Len(loads) < MaxLoads
                    /\ secretsCache' = SecretsOf(envKey)
                    /\ isLoading' = FALSE
                    /\ loads' = Append(loads, [by |-> c, result |-> SecretsOf(envKey)])
                    /\ callers' = [callers EXCEPT ![c] =
                                      [pc |-> "returned", op |-> op,
                                       result |-> Returned(op, SecretsOf(envKey)),
                                       awaiting |-> 0, entered |-> Cardinality(Completed)]]
    /\ UNCHANGED <<secretString, useSecretsManager>>
    /\ UNCHANGED <<upstream, envKey, phase, call, reply, sent, usedKey, clock,
                   previous, fanVars, otherVars>>

\* Promise.all(loadPromises) settles, or the client could not be built and
\* the catch falls back to the environment; the cache is set and the finally
\* block lowers isLoading
Complete(c) ==
    /\ callers[c].pc = "loading"
    /\ \E outcome \in {"sent", "failed", "fatal"} :
          \E secrets \in {IF outcome = "fatal" THEN SecretsOf(envKey)
                          ELSE loadedSecrets(secretString, outcome, envKey)} :
             /\ secretsCache' = secrets
             /\ loads' = [loads EXCEPT ![Len(loads)].result = secrets]
             /\ callers' = [callers EXCEPT ![c].pc = "returned",
                                           ![c].result = Returned(callers[c].op, secrets)]
    /\ isLoading' = FALSE
    /\ UNCHANGED <<secretString, useSecretsManager>>
    /\ UNCHANGED <<upstream, envKey, phase, call, reply, sent, usedKey, clock,
                   previous, fanVars, otherVars>>

\* the timer of a waiting caller fires after the load: the loop ends and the
\* caller returns secretsCache || {}
Poll(c) ==
    /\ callers[c].pc = "waiting"
    /\ ~isLoading
    /\ callers' = [callers EXCEPT
                      ![c].pc = "returned",
                      ![c].result = Returned(callers[c].op,
                                             IF secretsCache # Null THEN secretsCache
                                             ELSE SecretsOf(Undefined))]
    /\ UNCHANGED <<secretsCache, isLoading, loads, secretString, useSecretsManager>>
    /\ UNCHANGED <<upstream, envKey, phase, call, reply, sent, usedKey, clock,
                   previous, fanVars, otherVars>>

\* the caller has its answer and may call again
Leave(c) ==
    /\ callers[c].pc = "returned"
    /\ callers' = [callers EXCEPT ![c] = NotCalling]
    /\ UNCHANGED <<secretsCache, isLoading, loads, secretString, useSecretsManager>>
    /\ UNCHANGED <<upstream, envKey, phase, call, reply, sent, usedKey, clock,
                   previous, fanVars, otherVars>>

clearSecretsCache ==
    /\ secretsCache # Null
    /\ secretsCache' = Null
    /\ UNCHANGED <<isLoading, callers, loads, secretString, useSecretsManager>>
    /\ UNCHANGED <<upstream, envKey, phase, call, reply, sent, usedKey, clock,
                   previous, fanVars, otherVars>>

\* the secret is rotated in Secrets Manager, or removed
Rotate ==
    /\ \E v \in {Undefined, "s1", "s2"} :
          /\ v # secretString
          /\ secretString' = v
    /\ UNCHANGED <<secretsCache, isLoading, callers, loads, useSecretsManager>>
    /\ UNCHANGED <<upstream, envKey, phase, call, reply, sent, usedKey, clock,
                   previous, fanVars, otherVars>>

InitSecrets ==
    /\ upstream = [services |-> <<>>, incidents |-> <<>>]
    /\ envKey \in {"", "env-key"}
    /\ phase = "idle"
    /\ call = NoCall
    /\ reply = NoReply
    /\ sent = <<>>
    /\ usedKey = ""
    /\ clock = 0
    /\ previous = NoExchange
    /\ NoFanOut
    /\ secretsCache = Null
    /\ isLoading = FALSE
    /\ callers = [c \in Callers |-> NotCalling]
    /\ loads = <<>>
    /\ secretString \in {Undefined, "s1"}
    /\ useSecretsManager \in BOOLEAN
    /\ OthersIdle

NextSecrets ==
    \/ \E c \in Callers : Enter(c)
    \/ \E c \in Callers : Complete(c)
    \/ \E c \in Callers : Poll(c)
    \/ \E c \in Callers : Leave(c)
    \/ clearSecretsCache
    \/ Rotate

SpecSecrets == InitSecrets /\ [][NextSecrets]_vars

\* C17 as claimed: at most one load is in flight, and a caller that arrived
\* while a load was in flight returns what that load produced.
C17_WaitersShareTheLoad ==
    /\ Cardinality({c \in Callers : callers[c].pc = "loading"}) <= 1
    /\ \A c \in Callers :
          (callers[c].pc = "returned" /\ callers[c].awaiting # 0) =>
              callers[c].result = Returned(callers[c].op, loads[callers[c].awaiting].result)

\* a caller that waited for a load which produced the secret returns an empty
\* mapping: the cache was cleared before its timer fired
C17_Witness ==
    /\ Len(loads) = 1
    /\ loads[1].by = "a"
    /\ loads[1].result = SecretsOf("s1")
    /\ callers["a"].pc = "returned" /\ callers["a"].op = "loadSecrets"
    /\ callers["a"].result = SecretsOf("s1")
    /\ callers["b"].pc = "returned" /\ callers["b"].op = "loadSecrets"
    /\ callers["b"].awaiting = 1
    /\ callers["b"].result = SecretsOf(Undefined)

\* C18 as claimed: once a first load has completed, no further load is
\* started and every call made afterwards returns what the first load
\* produced.
C18_ImmutableAfterFirstLoad ==
    (Len(loads) >= 1 /\ loads[1].result # Null) =>
        /\ Len(loads) = 1
        /\ \A c \in Callers :
              (callers[c].pc = "returned" /\ callers[c].entered >= 1) =>
                  callers[c].result = Returned(callers[c].op, loads[1].result)

\* C18 amended: the cache is immutable from the completion of a load until
\* clearSecretsCache is called: while it is loaded it holds what the latest
\* load produced, it changes only by being cleared, no load is started, and
\* every call that begins returns its values at once.
C18_ImmutableUntilCleared ==
    [][ secretsCache # Null =>
          /\ Len(loads) >= 1 /\ loads[Len(loads)].result = secretsCache
          /\ secretsCache' \in {secretsCache, Null}
          /\ loads' = loads
          /\ ~isLoading'
          /\ \A c \in Callers :
                (callers[c].pc = "idle" /\ callers'[c].pc # "idle") =>
                    /\ callers'[c].pc = "returned"
                    /\ callers'[c].result = Returned(callers'[c].op, secretsCache) ]_vars

C18_Witness ==
    /\ Len(loads) = 1
    /\ loads[1].result = SecretsOf("s1")
    /\ secretsCache = SecretsOf("s1")
    /\ secretString = "s2"
    /\ callers["b"].pc = "returned" /\ callers["b"].op = "getSecret"
    /\ callers["b"].entered = 1
    /\ callers["b"].awaiting = 0
    /\ callers["b"].result = [value |-> "s1"]

----------------------------------------------------------------------------
(* Specification SpecRepeat: calls of the dispatcher one after another,    *)
(* the upstream data and the clock changing in between; `previous` keeps   *)
(* the exchange before the current one                                     *)

RepeatCalls ==
    {[name |-> n, args |-> Args(<<<<"service", "att">>>>)] :
        n \in {"check_outage", "get_service_status", "get_historical_incidents"}}

\* the second request of the call fails, or none does
RepeatFaults == {{}, {2}}

RepeatRequest ==
    /\ phase = "idle"
    /\ \E c \in RepeatCalls, faults \in RepeatFaults :
          \E r \in {CallTool(Net(faults, "status", envKey), c.name, c.args)} :
             /\ Relevant(faults, "status", r.reqs)
             /\ call' = [kind |-> "repeat", name |-> c.name, args |-> c.args,
                         faults |-> faults, cause |-> "status"]
             /\ reply' = [kind |-> "tool", envelope |-> r.envelope, escaped |-> r.escaped]
             /\ sent' = r.reqs
    /\ phase' = "done"
    /\ usedKey' = envKey
    /\ UNCHANGED <<upstream, envKey, clock, previous, fanVars, secretsVars, otherVars>>

\* the response is written; the exchange is kept for comparison
Remember ==
    /\ phase = "done"
    /\ previous' = [kind |-> "exchange", call |-> call, reply |-> reply, sent |-> sent,
                    usedKey |-> usedKey, upstream |-> upstream, clock |-> clock]
    /\ phase' = "idle"
    /\ call' = NoCall
    /\ reply' = NoReply
    /\ sent' = <<>>
    /\ usedKey' = ""
    /\ UNCHANGED <<upstream, envKey, clock, fanVars, secretsVars, otherVars>>

\* time passes between two requests
Tick ==
    /\ phase = "idle"
    /\ clock < MaxTicks
    /\ clock' = clock + 1
    /\ UNCHANGED <<upstream, envKey, phase, call, reply, sent, usedKey,
                   previous, fanVars, secretsVars, otherVars>>

InitRepeat ==
    /\ upstream = [services |-> Listed(<<"att">>, "operational"),
                   incidents |-> [id \in CatalogIds |-> <<>>]]
    /\ envKey = "env-key"
    /\ phase = "idle"
    /\ call = NoCall
    /\ reply = NoReply
    /\ sent = <<>>
    /\ usedKey = ""
    /\ clock = 0
    /\ previous = NoExchange
    /\ NoFanOut
    /\ SecretsUnloaded
    /\ OthersIdle

NextRepeat == RepeatRequest \/ Remember \/ SetStatus \/ SetFeed \/ Tick

SpecRepeat == InitRepeat /\ [][NextRepeat]_vars

RepeatDone == phase = "done" /\ call.kind = "repeat"

\* the call being answered is the call answered before: the same tool, the
\* same arguments, the same credential, the same requests failing
Identical ==
    /\ RepeatDone
    /\ previous.kind = "exchange"
    /\ previous.call = call
    /\ previous.usedKey = usedKey

\* upstream as it is now
AttStatus == upstream.services[1].status
AttOpen == SelectSeq(upstream.incidents["att"], NotResolved)

\* the response shows upstream as it is during the call
ReflectsUpstream ==
    (RepeatDone /\ call.faults = {}) =>
        /\ ~reply.envelope.isError
        /\ call.name = "check_outage" =>
              /\ reply.envelope.content.status = AttStatus
              /\ reply.envelope.content.incidents = AttOpen
        /\ call.name = "get_service_status" =>
              /\ reply.envelope.content.status = AttStatus
              /\ reply.envelope.content.current_incidents = AttOpen
        /\ call.name = "get_historical_incidents" =>
              /\ Range(reply.envelope.content.incidents) = Range(upstream.incidents["att"])
              /\ reply.envelope.content.total_incidents = Len(upstream.incidents["att"])

\* a response without the time of the check
Timeless(name, envelope) ==
    IF name = "get_service_status" /\ "last_checked" \in DOMAIN envelope.content
    THEN [envelope EXCEPT !.content.last_checked = 0]
    ELSE envelope

\* C19 as claimed: the response depends on the arguments, the credential and
\* the upstream responses of the call only, and shows upstream as it is
\* during the call.
C19_DependsOnUpstreamOnly ==
    /\ (Identical /\ previous.upstream = upstream) =>
          /\ reply = previous.reply
          /\ sent = previous.sent
    /\ ReflectsUpstream

\* C19 amended: nothing is cached or reused across requests: the response
\* depends on the arguments, the credential, the upstream responses of the
\* call and, in last_checked of get_service_status, the time of the call;
\* when the status or the incidents of a service changed between two
\* identical calls, the second response shows the new state.
C19_NothingIsReused ==
    /\ (Identical /\ previous.upstream = upstream) =>
          /\ Timeless(call.name, reply.envelope)
                = Timeless(call.name, previous.reply.envelope)
          /\ clock = previous.clock => reply = previous.reply
          /\ sent = previous.sent
    /\ (RepeatDone /\ call.name = "get_service_status" /\ call.faults = {}) =>
          reply.envelope.content.last_checked = clock
    /\ ReflectsUpstream
    /\ (Identical /\ call.faults = {} /\ call.name # "get_historical_incidents"
          /\ previous.upstream.services[1].status # AttStatus) =>
          reply.envelope.content.status # previous.reply.envelope.content.status

\* the same check_outage call twice, the service going down in between and
\* an incident being opened: the second response says so
C19_Witness ==
    /\ Identical
    /\ call.name = "check_outage"
    /\ call.faults = {}
    /\ previous.upstream.services[1].status = "operational"
    /\ previous.upstream.incidents["att"] = <<>>
    /\ AttStatus = "down"
    /\ upstream.incidents["att"] = OpenFeed
    /\ ~previous.reply.envelope.content.hasOutage
    /\ previous.reply.envelope.content.incidents = <<>>
    /\ reply.envelope.content.hasOutage
    /\ reply.envelope.content.status = "down"
    /\ Len(reply.envelope.content.incidents) = 1
    /\ clock > previous.clock

----------------------------------------------------------------------------
(* Specification SpecFanOut: one check_all_outages call of the dispatcher, *)
(* its six checkOutage promises running concurrently.  checks[k] is the    *)
(* promise of monitoredServices[k], `finished` the order in which the      *)
(* promises were fulfilled and the requests each of them saw fail.         *)

Running == [running |-> TRUE]

\* the requests of one check that may fail: of a listed service the list or
\* the details, of any other the list
CheckFaults(serviceName) ==
    CASE serviceName = "att" -> {{}, {1}, {2}}
      [] serviceName = "aws" -> {{}, {1}}
      [] OTHER -> {{}}

\* the array Promise.all is fulfilled with, in the order in which the
\* promises were fulfilled
PromiseAllAsFinished(values, order) ==
    [k \in 1..Len(order) |-> values[order[k].check]]

\* the array Promise.all is fulfilled with: the values in the order of the
\* promises it was given
PromiseAll(values, order) == values

\* services.map(service => statusGatorClient.checkOutage(service)): every
\* check is started before any is awaited
FanOutStart ==
    /\ phase = "idle"
    /\ phase' = "fanout"
    /\ call' = [kind |-> "fanout", name |-> "check_all_outages", args |-> Args(<<>>)]
    /\ checks' = [k \in 1..Len(monitoredServices) |-> Running]
    /\ finished' = <<>>
    /\ usedKey' = envKey
    /\ UNCHANGED <<upstream, envKey, reply, sent, clock, previous, secretsVars, otherVars>>

\* the check of one service runs to its end
CompleteCheck(k) ==
    /\ phase = "fanout"
    /\ checks[k] = Running
    /\ \E faults \in CheckFaults(monitoredServices[k]) :
          \E r \in {checkOutage(Net(faults, "status", usedKey), <<>>, monitoredServices[k])} :
             /\ Relevant(faults, "status", r.reqs)
             /\ checks' = [checks EXCEPT ![k] = IF r.ok THEN r.val ELSE [rejected |-> r.msg]]
             /\ finished' = Append(finished, [check |-> k, faults |-> faults])
             /\ sent' = sent \o r.reqs
    /\ UNCHANGED <<upstream, envKey, phase, call, reply, usedKey, clock, previous,
                   secretsVars, otherVars>>

\* await Promise.all(...) resumes and the handler builds its response; a
\* rejected check makes the handler throw
FanIn ==
    /\ phase = "fanout"
    /\ \A k \in 1..Len(checks) : checks[k] # Running
    /\ \E results \in {PromiseAll(checks, finished)} :
          \E r \in {IF \E k \in 1..Len(checks) : "rejected" \in DOMAIN checks[k]
                    THEN Envelope([error |-> "check rejected"], TRUE, sent)
                    ELSE Envelope(OutageSummary(results,
                                                SelectSeq(results, LAMBDA c : c.hasOutage)),
                                  FALSE, sent)} :
             reply' = [kind |-> "tool", envelope |-> r.envelope, escaped |-> r.escaped]
    /\ phase' = "done"
    /\ UNCHANGED <<upstream, envKey, call, sent, usedKey, clock, previous, fanVars,
                   secretsVars, otherVars>>

\* the response is written; the promises are gone
FanOutDeliver ==
    /\ phase = "done"
    /\ phase' = "idle"
    /\ call' = NoCall
    /\ reply' = NoReply
    /\ sent' = <<>>
    /\ usedKey' = ""
    /\ checks' = <<>>
    /\ finished' = <<>>
    /\ UNCHANGED <<upstream, envKey, clock, previous, secretsVars, otherVars>>

InitFanOut ==
    /\ \E st \in {"down", "up"} :
          upstream = [services |-> <<[id |-> "amazon-web-services",
                                      name |-> ServiceName("amazon-web-services"),
                                      status |-> "operational"],
                                     [id |-> "att", name |-> ServiceName("att"),
                                      status |-> st]>>,
                      incidents |-> [id \in CatalogIds |->
                                        IF id = "att" THEN OpenFeed ELSE <<>>]]
    /\ envKey = "env-key"
    /\ phase = "idle"
    /\ call = NoCall
    /\ reply = NoReply
    /\ sent = <<>>
    /\ usedKey = ""
    /\ clock = 0
    /\ previous = NoExchange
    /\ NoFanOut
    /\ SecretsUnloaded
    /\ OthersIdle

NextFanOut ==
    \/ FanOutStart
    \/ \E k \in 1..Len(monitoredServices) : CompleteCheck(k)
    \/ FanIn
    \/ FanOutDeliver

SpecFanOut == InitFanOut /\ [][NextFanOut]_vars

FanOutDone == phase = "done" /\ call.kind = "fanout"

\* the requests the check of monitoredServices[k] saw fail
FaultsOf(k) == finished[CHOOSE p \in 1..Len(finished) : finished[p].check = k].faults

\* the service the k-th monitored name resolves to, 0 if upstream lists none
ListedAs(k) ==
    CASE monitoredServices[k] = "att" -> 2
      [] monitoredServices[k] = "aws" -> 1
      [] OTHER -> 0

\* the lookups of the k-th check fail: a request fails, or upstream does not
\* know the service
LookupsFail(k) == FaultsOf(k) # {} \/ ListedAs(k) = 0

\* the entry of all_statuses for the k-th monitored service
IsEntryOf(entry, k) ==
    IF LookupsFail(k)
    THEN entry = [service |-> monitoredServices[k], hasOutage |-> FALSE,
                  status |-> "unknown", incidents |-> <<>>]
    ELSE /\ entry.service = upstream.services[ListedAs(k)].name
         /\ entry.status = upstream.services[ListedAs(k)].status
         /\ entry.hasOutage = (entry.status \notin {"operational", "up"})
         /\ entry.incidents
              = SelectSeq(upstream.incidents[upstream.services[ListedAs(k)].id], NotResolved)

----------------------------------------------------------------------------
(* Specification SpecLoop: getMultiServiceHistory step by step.  Every     *)
(* name of the call has a lookup, getHistoricalIncidents(name, ...), whose *)
(* requests are issued and answered one after another; loop.events keeps   *)
(* the order in which requests were issued and lookups completed.          *)

LoopNameLists == NameLists \cup {<<"att", "nosuch", " AWS ">>}

\* the positions a name can have in a list of LoopNameLists
LoopPositions == 1..3

\* the requests of one lookup that may fail
LookupFaults == {{}, {1}, {2}}

Pending == [state |-> "pending", plan |-> <<>>, issued |-> 0, val |-> <<>>]

\* a loop body that starts every lookup without awaiting the one before
MayStartAtOnce(lookups, k) == TRUE

\* for (const serviceName of services) { await ... }: the k-th iteration is
\* entered when the await of the iteration before has resumed
MayStart(lookups, k) == IF k = 1 THEN TRUE ELSE lookups[k - 1].state = "done"

LoopStart ==
    /\ phase = "idle"
    /\ \E names \in LoopNameLists :
          /\ call' = [kind |-> "loop", services |-> names, start_date |-> Undefined,
                      end_date |-> Undefined]
          /\ loop' = [pc |-> "running", lookups |-> [k \in 1..Len(names) |-> Pending],
                      results |-> <<>>, events |-> <<>>]
    /\ phase' = "looping"
    /\ usedKey' = envKey
    /\ UNCHANGED <<upstream, envKey, reply, sent, clock, previous, fanVars, secretsVars,
                   tracing, traced, inbound>>

\* getHistoricalIncidents is called for the k-th name: its first request,
\* GET /services, goes out
StartLookup(k) ==
    /\ phase = "looping"
    /\ k <= Len(loop.lookups)
    /\ loop.lookups[k].state = "pending"
    /\ MayStart(loop.lookups, k)
    /\ \E faults \in LookupFaults :
          \E r \in {getHistoricalIncidents(Net(faults, "status", usedKey), <<>>,
                                             call.services[k], call.start_date,
                                             call.end_date, Undefined)} :
             /\ Relevant(faults, "status", r.reqs)
             /\ loop' = [loop EXCEPT
                           !.lookups[k] = [state |-> "running", plan |-> r.reqs,
                                           issued |-> 1, val |-> r.val],
                           !.events = Append(@, [e |-> "issue", k |-> k])]
             /\ sent' = Append(sent, r.reqs[1])
    /\ UNCHANGED <<upstream, envKey, phase, call, reply, usedKey, clock, previous,
                   fanVars, secretsVars, tracing, traced, inbound>>

\* the request of the k-th lookup that is in flight is answered: the lookup
\* issues its next request, or it completes and results[serviceName] is set
RequestReturns(k) ==
    /\ phase = "looping"
    /\ k <= Len(loop.lookups)
    /\ loop.lookups[k].state = "running"
    /\ IF loop.lookups[k].issued < Len(loop.lookups[k].plan)
       THEN /\ loop' = [loop EXCEPT
                          !.lookups[k].issued = @ + 1,
                          !.events = Append(@, [e |-> "issue", k |-> k])]
            /\ sent' = Append(sent, loop.lookups[k].plan[loop.lookups[k].issued + 1])
       ELSE /\ loop' = [loop EXCEPT
                          !.lookups[k].state = "done",
                          !.results = Put(@, call.services[k], loop.lookups[k].val),
                          !.events = Append(@, [e |-> "complete", k |-> k])]
            /\ sent' = sent
    /\ UNCHANGED <<upstream, envKey, phase, call, reply, usedKey, clock, previous,
                   fanVars, secretsVars, tracing, traced, inbound>>

\* the loop is over: return results
LoopEnd ==
    /\ phase = "looping"
    /\ \A k \in 1..Len(loop.lookups) : loop.lookups[k].state = "done"
    /\ reply' = [kind |-> "multi", ok |-> TRUE, val |-> loop.results]
    /\ phase' = "done"
    /\ UNCHANGED <<upstream, envKey, call, sent, usedKey, clock, previous, fanVars,
                   secretsVars, otherVars>>

LoopDeliver ==
    /\ phase = "done"
    /\ phase' = "idle"
    /\ call' = NoCall
    /\ reply' = NoReply
    /\ sent' = <<>>
    /\ usedKey' = ""
    /\ loop' = NoLoop
    /\ UNCHANGED <<upstream, envKey, clock, previous, fanVars, secretsVars,
                   tracing, traced, inbound>>

InitLoop ==
    /\ \E f \in {<<>>, OpenFeed} :
          upstream = [services |-> Listed(<<"amazon-web-services", "att">>, "operational"),
                      incidents |-> [id \in CatalogIds |->
                                        CASE id = "att" -> f
                                          [] id = "amazon-web-services" -> AwsFeed
                                          [] OTHER -> <<>>]]
    /\ envKey = "env-key"
    /\ phase = "idle"
    /\ call = NoCall
    /\ reply = NoReply
    /\ sent = <<>>
    /\ usedKey = ""
    /\ clock = 0
    /\ previous = NoExchange
    /\ NoFanOut
    /\ SecretsUnloaded
    /\ OthersIdle

NextLoop ==
    \/ LoopStart
    \/ \E k \in LoopPositions : StartLookup(k)
    \/ \E k \in LoopPositions : RequestReturns(k)
    \/ LoopEnd
    \/ LoopDeliver

SpecLoop == InitLoop /\ [][NextLoop]_vars

Looping == phase \in {"looping", "done"} /\ call.kind = "loop"

\* the positions of the names whose lookup is in flight
InFlight == {k \in 1..Len(loop.lookups) : loop.lookups[k].state = "running"}

\* C21: the lookups of one getMultiServiceHistory call run one at a time in
\* the order of the names: at most one is in flight, and no request for a
\* name is issued before the lookup of the name before it has completed.
C21_OneLookupAtATime ==
    Looping =>
        /\ Cardinality(InFlight) <= 1
        /\ \A p \in 1..Len(loop.events) :
              (loop.events[p].e = "issue" /\ loop.events[p].k > 1) =>
                  \E q \in 1..(p - 1) :
                     loop.events[q] = [e |-> "complete", k |-> loop.events[p].k - 1]
        /\ \A p, q \in 1..Len(loop.events) : p < q => loop.events[p].k <= loop.events[q].k
        /\ phase = "done" =>
              [k \in 1..Len(reply.val) |-> reply.val[k][1]] \in
                 {call.services, <<call.services[1]>>}

\* two names, two requests each: the second name's requests follow the
\* completion of the first name's lookup
C21_Witness ==
    /\ Looping /\ phase = "done"
    /\ call.services = <<" AWS ", "att">>
    /\ Len(sent) = 4
    /\ loop.events = <<[e |-> "issue", k |-> 1], [e |-> "issue", k |-> 1],
                       [e |-> "complete", k |-> 1], [e |-> "issue", k |-> 2],
                       [e |-> "issue", k |-> 2], [e |-> "complete", k |-> 2]>>
    /\ Len(reply.val) = 2
    /\ Len(reply.val[2][2]) = 2

----------------------------------------------------------------------------
(* searchService under SpecAlias: which service of the catalog it picks *)

AliasDone == phase = "done" /\ call.kind = "alias"

\* the name searched for, lower-cased, trimmed and with the alias replaced
SearchedName == trim(toLowerCase(call.long))

ExactAt ==
    {k \in 1..Len(upstream.services) :
        \/ upstream.services[k].id = SearchedName
        \/ toLowerCase(upstream.services[k].name) = SearchedName}

PartialAt ==
    {k \in 1..Len(upstream.services) :
        \/ includes(toLowerCase(upstream.services[k].name), SearchedName)
        \/ includes(upstream.services[k].id, SearchedName)}

Least(S) == CHOOSE x \in S : \A y \in S : x <= y

\* C22: searchService returns the first service whose id or lower-cased
\* name equals the searched name, also when an earlier service contains the
\* name; without an exact match it returns the first service whose id or
\* lower-cased name contains the name; when nothing matches it returns null
\* and raises nothing.
C22_ExactMatchFirst ==
    (AliasDone /\ Len(sent) = 2 /\ ~Failed(1)) =>
        /\ reply.short.ok
        /\ reply.short.val =
              IF ExactAt # {} THEN upstream.services[Least(ExactAt)]
              ELSE IF PartialAt # {} THEN upstream.services[Least(PartialAt)]
              ELSE Null

\* Google Cloud Storage is listed before Google Cloud and contains the name
C22_Witness ==
    /\ AliasDone
    /\ call.short = "gcp"
    /\ call.faults = {}
    /\ Len(upstream.services) = 2
    /\ upstream.services[1].id = "google-cloud-storage"
    /\ upstream.services[2].id = "google-cloud"
    /\ ExactAt = {2}
    /\ PartialAt = {1, 2}
    /\ reply.short.ok
    /\ reply.short.val = upstream.services[2]

----------------------------------------------------------------------------
(* Specification SpecIncidents: get_all_incidents with att and aws listed  *)
(* upstream, up to two of the requests of the call failing.                *)

AwsOpenFeed ==
    <<Incident("a2", "identified", "2025-01-02T09:00:00Z", Undefined),
      Incident("a1", "resolved", "2025-01-02T00:00:00Z", "2025-01-02T01:00:00Z")>>

\* a call issues at most three requests for each of the six services
IncidentFaults == {f \in SUBSET (1..18) : Cardinality(f) <= 2}

AllIncidentsRequest ==
    /\ phase = "idle"
    /\ \E faults \in IncidentFaults, cause \in Causes :
          \E r \in {CallTool(Net(faults, cause, envKey), "get_all_incidents", Args(<<>>))} :
             /\ Relevant(faults, cause, r.reqs)
             /\ call' = [kind |-> "incidents", name |-> "get_all_incidents",
                         args |-> Args(<<>>), faults |-> faults, cause |-> cause]
             /\ reply' = [kind |-> "tool", envelope |-> r.envelope, escaped |-> r.escaped]
             /\ sent' = r.reqs
    /\ phase' = "done"
    /\ usedKey' = envKey
    /\ UNCHANGED <<upstream, envKey, clock, previous, fanVars, secretsVars, otherVars>>

InitIncidents ==
    /\ \E f \in Feeds, g \in {<<>>, AwsOpenFeed} :
          upstream = [services |-> Listed(<<"amazon-web-services", "att">>, "down"),
                      incidents |-> [id \in CatalogIds |->
                                        CASE id = "att" -> f
                                          [] id = "amazon-web-services" -> g
                                          [] OTHER -> <<>>]]
    /\ envKey = "env-key"
    /\ phase = "idle"
    /\ call = NoCall
    /\ reply = NoReply
    /\ sent = <<>>
    /\ usedKey = ""
    /\ clock = 0
    /\ previous = NoExchange
    /\ NoFanOut
    /\ SecretsUnloaded
    /\ OthersIdle

NextIncidents == AllIncidentsRequest \/ Deliver

SpecIncidents == InitIncidents /\ [][NextIncidents]_vars

IncidentsDone == phase = "done" /\ call.kind = "incidents"

\* the requests issued for the k-th monitored service: from its catalog
\* request up to the catalog request of the next service
RequestsFor(k) ==
    {p \in 1..Len(sent) :
        /\ p >= ListRequests[k]
        /\ k < Len(ListRequests) => p < ListRequests[k + 1]}

\* a request for the k-th monitored service failed
ServiceFailed(k) == RequestsFor(k) \cap call.faults # {}

\* the incidents upstream has for the k-th monitored service that are not
\* resolved; none if upstream does not list the service
OpenIncidentsOf(k) ==
    IF ListedAs(k) = 0 THEN <<>>
    ELSE SelectSeq(upstream.incidents[upstream.services[ListedAs(k)].id], NotResolved)

\* C23: get_all_incidents visits the six monitored services in turn and
\* never fails: whichever requests fail, the result holds the non-resolved
\* incidents of every service none of whose requests failed, and no
\* incident whose status is "resolved".
C23_FailuresDegrade ==
    IncidentsDone =>
        /\ ~reply.envelope.isError
        /\ Len(ListRequests) = 6
        /\ \A k \in 1..6 :
              ~ServiceFailed(k) =>
                  Range(OpenIncidentsOf(k)) \subseteq Range(reply.envelope.content.incidents)
        /\ \A i \in Range(reply.envelope.content.incidents) : i.status # "resolved"
        /\ Range(reply.envelope.content.incidents)
              \subseteq UNION {Range(OpenIncidentsOf(k)) : k \in 1..6}
        /\ reply.envelope.content.total_incidents = Len(reply.envelope.content.incidents)

\* the incident request for att fails: the open incident of aws is reported
C23_Witness ==
    /\ IncidentsDone
    /\ call.faults = {3}
    /\ sent[3].url = UrlOf("incidents", "att")
    /\ upstream.incidents["att"] = OpenFeed
    /\ upstream.incidents["amazon-web-services"] = AwsOpenFeed
    /\ ServiceFailed(1)
    /\ ~ServiceFailed(4)
    /\ Len(sent) = 18
    /\ [k \in 1..Len(reply.envelope.content.incidents) |->
          reply.envelope.content.incidents[k].id] = <<"a2">>

----------------------------------------------------------------------------
(* The requests one status lookup issues, under Spec *)

StatusLookupDone == ToolDone("check_outage") \/ ToolDone("get_service_status")

\* the positions in the request log of the requests for a URL
RequestsTo(url) == {p \in 1..Len(sent) : sent[p].url = url}

\* the ids a request of the log asks the details or the incidents of: ids
\* of the catalog, or the caller's word when the catalog has no match
IdsAsked ==
    {id \in CatalogIds \cup (ServiceArgs \ {Undefined}) :
        RequestsTo(UrlOf("detail", id)) \cup RequestsTo(UrlOf("incidents", id)) # {}}

\* C24: no request is retried: whatever its requests are answered, one
\* checkOutage or getServiceStatus call issues at most one request to
\* /services, at most one to /services/{id} and at most one to
\* /services/{id}/incidents, all for the same id.
C24_NoRetry ==
    StatusLookupDone =>
        /\ Cardinality(RequestsTo(UrlOf("list", ""))) <= 1
        /\ Cardinality(IdsAsked) <= 1
        /\ \A id \in IdsAsked :
              /\ Cardinality(RequestsTo(UrlOf("detail", id))) <= 1
              /\ Cardinality(RequestsTo(UrlOf("incidents", id))) <= 1
        /\ Len(sent) <= 3
        /\ \A p \in 1..Len(sent) :
              sent[p].url \in {UrlOf("list", "")}
                 \cup {UrlOf("detail", id) : id \in IdsAsked}
                 \cup {UrlOf("incidents", id) : id \in IdsAsked}

\* the details and the incidents request both fail: three requests went out,
\* each once, and the service is reported as unknown
C24_Witness ==
    /\ ToolDone("check_outage")
    /\ Arg(call.args, "service") = " AWS "
    /\ call.faults = {2, 3}
    /\ call.cause = "transport"
    /\ [p \in 1..Len(sent) |-> sent[p].url]
          = <<UrlOf("list", ""), UrlOf("detail", "amazon-web-services"),
              UrlOf("incidents", "amazon-web-services")>>
    /\ reply.envelope.content.status = "unknown"

----------------------------------------------------------------------------
(* search_service under Spec: a failed catalog request and a missing       *)
(* service                                                                 *)

SearchDone == ToolDone("search_service") /\ Truthy(Arg(call.args, "service_name"))

\* the message makeRequest raises for the failure of the catalog request
ListFailureMessage ==
    IF call.cause = "transport"
    THEN "Failed to fetch from StatusGator: network timeout"
    ELSE "Failed to fetch from StatusGator: StatusGator API error: 503 Service Unavailable"

\* C25: search_service tells an upstream failure from a missing service:
\* when the catalog request fails, by status or by transport, the envelope
\* is error-flagged and carries the failure's message; when the catalog is
\* fetched and nothing matches, the envelope is not error-flagged and
\* carries {error: "Service '<name>' not found"}.
C25_FailureIsNotNotFound ==
    SearchDone =>
        /\ Len(sent) = 1
        /\ Failed(1) =>
              /\ reply.envelope.isError
              /\ reply.envelope.content = [error |-> ListFailureMessage]
        /\ (~Failed(1) /\ Unresolvable(call.args.service_name)) =>
              /\ ~reply.envelope.isError
              /\ reply.envelope.content = NotFoundPayload(call.args.service_name)
        /\ (~Failed(1) /\ ~Unresolvable(call.args.service_name)) =>
              /\ ~reply.envelope.isError
              /\ reply.envelope.content \in Range(upstream.services)

\* the catalog request is answered 503 while att is searched for
C25_Witness ==
    /\ SearchDone
    /\ call.args.service_name = "att"
    /\ call.faults = {1}
    /\ call.cause = "status"
    /\ ~Unresolvable("att")
    /\ reply.envelope.isError
    /\ reply.envelope.content # NotFoundPayload("att")
    /\ reply.envelope.content =
          [error |-> "Failed to fetch from StatusGator: StatusGator API error: 503 Service Unavailable"]

----------------------------------------------------------------------------
(* The range of the uptime statistics, under SpecUptime *)

\* C29 as claimed: the downtime of a report is between 0 and the length of
\* the period, and the uptime share between 0 and 100.
C29_StatisticsInRange ==
    (UptimeDone /\ reply.val # Null /\ PeriodSeconds > 0) =>
        /\ reply.val.total_downtime_minutes >= 0
        /\ 60 * reply.val.total_downtime_minutes <= PeriodSeconds
        /\ reply.val.uptime_percentage >= 0
        /\ reply.val.uptime_percentage <= 10000

\* one incident created within the day and resolved 25 hours later: 1500
\* minutes of downtime in a day of 1440, an uptime of -4.17 percent
C29_Witness ==
    /\ UptimeDone /\ call.service = "att" /\ call.faults = {}
    /\ call.start_date = "2025-01-01" /\ call.end_date = "2025-01-02"
    /\ Len(upstream.incidents["att"]) = 1
    /\ upstream.incidents["att"][1].id = "u5"
    /\ reply.val.total_incidents = 1
    /\ reply.val.total_downtime_minutes = 1500
    /\ reply.val.uptime_percentage = -417

----------------------------------------------------------------------------
(* The structured logger, src/unnamed/part_001, and the tracing            *)
(* middleware, src/src/shared/request-tracing-middleware.js.  A logger is  *)
(* its service name, its minimum level and the context its own log method  *)
(* merges into an entry (Null for a logger made by the constructor); a     *)
(* context is a function from field names to values.                       *)

EmptyContext == [k \in {} |-> Undefined]

StructuredLogger(serviceName, minLevel) ==
    [serviceName |-> serviceName, minLevel |-> minLevel, added |-> Null]

LevelIndex(level) ==
    CASE level = "debug" -> 0
      [] level = "info" -> 1
      [] level = "warn" -> 2
      [] OTHER -> 3

shouldLog(logger, level) == LevelIndex(level) >= LevelIndex(logger.minLevel)

createLogEntry(logger, level, message, context) ==
    [level |-> level, service |-> logger.serviceName, message |-> message,
     context |-> context]

\* child: a new StructuredLogger(this.serviceName, this.minLevel) whose log
\* merges additionalContext and then calls the log of that new logger
child(logger, additionalContext) ==
    [serviceName |-> logger.serviceName, minLevel |-> logger.minLevel,
     added |-> additionalContext]

\* { ...additionalContext, ...entry.context }
Spread(additionalContext, context) == context @@ additionalContext

\* JSON.stringify leaves out the fields that are undefined
Stringify(entry) ==
    [entry EXCEPT !.context =
        [k \in {f \in DOMAIN entry.context : entry.context[f] # Undefined} |->
            entry.context[k]]]

\* logger.log(entry): the output with the entry written, if its level passes
log(logger, entry, output) ==
    Bind(IF logger.added = Null THEN entry
         ELSE [entry EXCEPT !.context = Spread(logger.added, entry.context)],
         LAMBDA merged :
           IF shouldLog(logger, merged.level) THEN Append(output, Stringify(merged))
           ELSE output)

\* logger.info(message, context), logger.error(message, context), ...
LogAt(logger, level, message, context, output) ==
    log(logger, createLogEntry(logger, level, message, context), output)

\* the correlation id the request brings in a header, or a generated one
CorrelationIdOf(header) == IF Truthy(header) THEN header ELSE "req_0_generated"

baseContextOf(correlationId) ==
    [requestId |-> correlationId, method |-> "POST", path |-> "/mcp"]

\* the bodies of the requests: an empty one, one without and one with
\* conversation context
TracedBodies ==
    {[jsonrpc |-> "2.0"],
     [method |-> "tools/call"],
     [method |-> "tools/call", conversationId |-> "conv-1", userId |-> "user-1"]}

\* req.body?.[key]
BodyField(body, key) == IF key \in DOMAIN body THEN body[key] ELSE Undefined

\* requestTracingMiddleware({ logger }) handles a request
TracingMiddleware ==
    /\ tracing.pc = "idle"
    /\ \E header \in {Undefined, "corr-1"}, body \in TracedBodies :
          \E logger \in {child(StructuredLogger("outage-monitor-mcp", "info"),
                               baseContextOf(CorrelationIdOf(header)))} :
             tracing' = [pc |-> "traced",
                         correlationId |-> CorrelationIdOf(header),
                         body |-> body,
                         logger |-> logger,
                         conversation |-> "pending",
                         handlerLogs |-> 0,
                         entries |->
                            LogAt(logger, "info", "Incoming request",
                                  [userAgent |-> "agent", queryParams |-> Undefined]
                                     @@ baseContextOf(CorrelationIdOf(header)),
                                  <<>>)]
    /\ UNCHANGED <<upstream, envKey, phase, call, reply, sent, usedKey, clock,
                   previous, fanVars, secretsVars, loop, traced, inbound>>

\* conversationContextMiddleware() handles the request
ConversationMiddleware ==
    /\ tracing.pc = "traced"
    /\ tracing.conversation = "pending"
    /\ tracing' =
          IF \E key \in {"conversationId", "userId", "userEmail", "sessionId"} :
                Truthy(BodyField(tracing.body, key))
          THEN [tracing EXCEPT
                  !.conversation = "added",
                  !.logger = child(tracing.logger,
                                   [key \in {"conversationId", "userId", "userEmail",
                                             "sessionId"} |->
                                       BodyField(tracing.body, key)])]
          ELSE [tracing EXCEPT !.conversation = "none"]
    /\ UNCHANGED <<upstream, envKey, phase, call, reply, sent, usedKey, clock,
                   previous, fanVars, secretsVars, loop, traced, inbound>>

\* the route handler writes an entry through req.logger
HandlerLogs ==
    /\ tracing.pc = "traced"
    /\ tracing.handlerLogs < MaxHandlerLogs
    /\ \E level \in {"debug", "info", "error"},
          context \in {EmptyContext, [tool |-> "check_outage"]} :
          tracing' = [tracing EXCEPT
                        !.handlerLogs = @ + 1,
                        !.entries = LogAt(tracing.logger, level, "Handling tool call",
                                          context, @)]
    /\ UNCHANGED <<upstream, envKey, phase, call, reply, sent, usedKey, clock,
                   previous, fanVars, secretsVars, loop, traced, inbound>>

\* the level and the message of the entry for a response, by its status code
\* (the codes are written as they appear in the entry)
ResponseLevel(statusCode) ==
    CASE statusCode = "500" -> "error"
      [] statusCode = "404" -> "warn"
      [] OTHER -> "info"

ResponseMessage(statusCode) ==
    CASE statusCode = "500" -> "Request failed"
      [] statusCode = "404" -> "Request error"
      [] OTHER -> "Request completed"

\* res.send: the response is logged through req.logger at the level of its
\* status code
Send ==
    /\ tracing.pc = "traced"
    /\ \E statusCode \in {"200", "404", "500"} :
          tracing' = [tracing EXCEPT
                        !.pc = "sent",
                        !.entries =
                           LogAt(tracing.logger,
                                 ResponseLevel(statusCode),
                                 ResponseMessage(statusCode),
                                 [statusCode |-> statusCode, durationMs |-> "0"]
                                    @@ baseContextOf(tracing.correlationId),
                                 @)]
    /\ UNCHANGED <<upstream, envKey, phase, call, reply, sent, usedKey, clock,
                   previous, fanVars, secretsVars, loop, traced, inbound>>

\* the request is over
Forget ==
    /\ tracing.pc = "sent"
    /\ tracing' = NoTracing
    /\ UNCHANGED <<upstream, envKey, phase, call, reply, sent, usedKey, clock,
                   previous, fanVars, secretsVars, loop, traced, inbound>>

InitTracing ==
    /\ upstream = [services |-> <<>>, incidents |-> <<>>]
    /\ envKey = "env-key"
    /\ phase = "idle"
    /\ call = NoCall
    /\ reply = NoReply
    /\ sent = <<>>
    /\ usedKey = ""
    /\ clock = 0
    /\ previous = NoExchange
    /\ NoFanOut
    /\ SecretsUnloaded
    /\ OthersIdle

NextTracing ==
    TracingMiddleware \/ ConversationMiddleware \/ HandlerLogs \/ Send \/ Forget

SpecTracing == InitTracing /\ [][NextTracing]_vars

Tracing == tracing.pc # "idle"

\* C26 as claimed: every entry written through req.logger carries the
\* correlation id of the request as context.requestId, also after
\* conversationContextMiddleware has replaced req.logger by a child.
C26_EntriesCarryRequestId ==
    Tracing =>
        \A k \in 1..Len(tracing.entries) :
           /\ "requestId" \in DOMAIN tracing.entries[k].context
           /\ tracing.entries[k].context.requestId = tracing.correlationId

\* a request with conversation context: the entry the handler writes after
\* both middlewares carries the conversation and no requestId
C26_Witness ==
    /\ Tracing
    /\ tracing.correlationId = "corr-1"
    /\ tracing.conversation = "added"
    /\ Len(tracing.entries) = 2
    /\ tracing.entries[1].context.requestId = "corr-1"
    /\ tracing.entries[2].message = "Handling tool call"
    /\ tracing.entries[2].context =
          [conversationId |-> "conv-1", userId |-> "user-1", tool |-> "check_outage"]

----------------------------------------------------------------------------
(* TracedHttpClient.request, src/src/shared/secrets-loader.d.ts 111-221.   *)
(* The request is followed from await to await: the fetch is pending until *)
(* the response arrives, the fetch fails, or the timer aborts it; the body *)
(* is read after the response arrived.  The timer is "pending" from        *)
(* setTimeout until clearTimeout ("cleared") or until it fires ("fired").  *)
(* made counts the requests, left the timers of earlier requests that are  *)
(* still pending.                                                          *)

DefaultTimeout == 30000

\* the options a caller passes
TracedOptions ==
    {[method |-> "GET"],
     [method |-> "GET", timeout |-> 5000],
     [method |-> "POST", correlationId |-> "corr-1"],
     [method |-> "POST", correlationId |-> "corr-1", timeout |-> 5000]}

\* const { timeout = 30000 } = options
TimeoutOf(options) ==
    IF "timeout" \in DOMAIN options THEN options.timeout ELSE DefaultTimeout

\* logContext: the requestId is undefined, and left out of the entries,
\* without a correlation id
logContextOf(options) ==
    IF "correlationId" \in DOMAIN options
    THEN [requestId |-> options.correlationId, method |-> options.method]
    ELSE [method |-> options.method]

\* the entry the catch block writes; the timeout field is undefined, and left
\* out of the entry, unless the error is an AbortError
RequestErrorEntry(options, error) ==
    IF error = "AbortError"
    THEN [level |-> "error", message |-> "Request error (timeout)",
          timeout |-> TimeoutOf(options), error |-> error] @@ logContextOf(options)
    ELSE [level |-> "error", message |-> "Request error", error |-> error]
            @@ logContextOf(options)

\* request(url, options) up to the await of fetch
TracedRequest ==
    /\ traced.pc = "idle"
    /\ traced.made < MaxTracedRequests
    /\ \E options \in TracedOptions :
          traced' = [pc |-> "fetching",
                     made |-> traced.made + 1,
                     left |-> traced.left,
                     options |-> options,
                     timeout |-> TimeoutOf(options),
                     timer |-> "pending",
                     aborted |-> FALSE,
                     logs |-> <<[level |-> "debug", message |-> "Sending request"]
                                   @@ logContextOf(options)>>,
                     outcome |-> [kind |-> "pending"]]
    /\ UNCHANGED <<upstream, envKey, phase, call, reply, sent, usedKey, clock,
                   previous, fanVars, secretsVars, loop, tracing, inbound>>

\* fetch resolves with a response: clearTimeout(timeoutId), then the body is
\* awaited
ResponseArrives ==
    /\ traced.pc = "fetching"
    /\ ~traced.aborted
    /\ \E status \in {200, 404, 500}, json \in BOOLEAN :
          traced' = [traced EXCEPT !.pc = "reading",
                                   !.timer = "cleared",
                                   !.outcome = [kind |-> "response", status |-> status,
                                                json |-> json]]
    /\ UNCHANGED <<upstream, envKey, phase, call, reply, sent, usedKey, clock,
                   previous, fanVars, secretsVars, loop, tracing, inbound>>

\* fetch rejects for a reason other than the abort (network error)
FetchFails ==
    /\ traced.pc = "fetching"
    /\ ~traced.aborted
    /\ traced' = [traced EXCEPT
                    !.pc = "settled",
                    !.logs = Append(@, RequestErrorEntry(traced.options, "TypeError")),
                    !.outcome = [kind |-> "thrown", error |-> "TypeError"]]
    /\ UNCHANGED <<upstream, envKey, phase, call, reply, sent, usedKey, clock,
                   previous, fanVars, secretsVars, loop, tracing, inbound>>

\* the timer fires: controller.abort()
TimerFires ==
    /\ traced.pc # "idle"
    /\ traced.timer = "pending"
    /\ traced' = [traced EXCEPT !.timer = "fired", !.aborted = TRUE]
    /\ UNCHANGED <<upstream, envKey, phase, call, reply, sent, usedKey, clock,
                   previous, fanVars, secretsVars, loop, tracing, inbound>>

\* the aborted fetch rejects with an AbortError
FetchAborted ==
    /\ traced.pc = "fetching"
    /\ traced.aborted
    /\ traced' = [traced EXCEPT
                    !.pc = "settled",
                    !.logs = Append(@, RequestErrorEntry(traced.options, "AbortError")),
                    !.outcome = [kind |-> "thrown", error |-> "AbortError"]]
    /\ UNCHANGED <<upstream, envKey, phase, call, reply, sent, usedKey, clock,
                   previous, fanVars, secretsVars, loop, tracing, inbound>>

\* response.json() or response.text() resolves: the response is logged and
\* returned
BodyRead ==
    /\ traced.pc = "reading"
    /\ traced' = [traced EXCEPT
                    !.pc = "settled",
                    !.logs = Append(@,
                       (IF traced.outcome.status < 300
                        THEN [level |-> "info", message |-> "Request completed",
                              statusCode |-> traced.outcome.status]
                        ELSE [level |-> "warn", message |-> "Request failed",
                              statusCode |-> traced.outcome.status])
                          @@ logContextOf(traced.options)),
                    !.outcome = [kind |-> "returned", status |-> traced.outcome.status]]
    /\ UNCHANGED <<upstream, envKey, phase, call, reply, sent, usedKey, clock,
                   previous, fanVars, secretsVars, loop, tracing, inbound>>

\* response.json() or response.text() rejects (a connection that breaks, a
\* body that is no JSON)
BodyFails ==
    /\ traced.pc = "reading"
    /\ \E error \in IF traced.outcome.json THEN {"SyntaxError", "TypeError"}
                     ELSE {"TypeError"} :
          traced' = [traced EXCEPT
                       !.pc = "settled",
                       !.logs = Append(@, RequestErrorEntry(traced.options, error)),
                       !.outcome = [kind |-> "thrown", error |-> error]]
    /\ UNCHANGED <<upstream, envKey, phase, call, reply, sent, usedKey, clock,
                   previous, fanVars, secretsVars, loop, tracing, inbound>>

\* the timer of an earlier request fires: controller.abort() on a request
\* that is over
LeftTimerFires ==
    /\ traced.left > 0
    /\ traced' = [traced EXCEPT !.left = @ - 1]
    /\ UNCHANGED <<upstream, envKey, phase, call, reply, sent, usedKey, clock,
                   previous, fanVars, secretsVars, loop, tracing, inbound>>

\* the caller has the outcome; a timer that is still pending stays behind
TracedForget ==
    /\ traced.pc = "settled"
    /\ traced' = [pc |-> "idle",
                  made |-> traced.made,
                  left |-> traced.left + (IF traced.timer = "pending" THEN 1 ELSE 0)]
    /\ UNCHANGED <<upstream, envKey, phase, call, reply, sent, usedKey, clock,
                   previous, fanVars, secretsVars, loop, tracing, inbound>>

InitTraced == InitTracing

NextTraced ==
    \/ TracedRequest
    \/ ResponseArrives
    \/ FetchFails
    \/ TimerFires
    \/ FetchAborted
    \/ BodyRead
    \/ BodyFails
    \/ LeftTimerFires
    \/ TracedForget

SpecTraced == InitTraced /\ [][NextTraced]_vars

Settled == traced.pc = "settled"

ReportedAsTimeout ==
    \E k \in 1..Len(traced.logs) : traced.logs[k].message = "Request error (timeout)"

\* the request was over, by its response or by a failure, before the timer
\* fired
OverBeforeTimeout ==
    /\ Settled
    /\ \/ traced.outcome.kind = "returned"
       \/ traced.outcome.kind = "thrown" /\ traced.outcome.error # "AbortError"

\* C27 as claimed: a request that completes or fails before the timeout is
\* never reported as a timeout and leaves no pending timeout timer behind.
C27_NoTimerLeftBehind ==
    OverBeforeTimeout => (~ReportedAsTimeout /\ traced.timer # "pending")

\* the fetch failed at once: the error is logged and rethrown, and the timer
\* of the request is still pending
C27_Witness ==
    /\ Settled
    /\ traced.outcome = [kind |-> "thrown", error |-> "TypeError"]
    /\ Len(traced.logs) = 2
    /\ traced.logs[2] = [level |-> "error", message |-> "Request error",
                         error |-> "TypeError", method |-> "GET"]
    /\ traced.timeout = DefaultTimeout
    /\ traced.timer = "pending"

\* the part of C27 on requests that do time out: the fetch is cancelled, the
\* entry names the timeout and its length, the AbortError is rethrown, and no
\* other outcome is reported as a timeout
C27_TimeoutIsReported ==
    Settled =>
        /\ (traced.outcome.kind = "thrown" /\ traced.outcome.error = "AbortError")
              <=> ReportedAsTimeout
        /\ ReportedAsTimeout =>
              /\ traced.aborted
              /\ traced.timer = "fired"
              /\ traced.logs[Len(traced.logs)].timeout = traced.timeout

----------------------------------------------------------------------------
(* Concurrent tools/call requests on the HTTP adapter, src/unnamed/part_002 *)
(* 86-307.  A handler runs from await to await: up to the dynamic import,   *)
(* then the client is made and the tool issues its first upstream request,  *)
(* then from each answer to the next request; the handlers of the other     *)
(* requests run in between.                                                 *)
(* inbound holds the requests in the order they arrived, each with the      *)
(* locals of its handler and the upstream requests sent on its behalf.      *)

ConcurrentHeaders == {Undefined, "Bearer k1", "bearer   k2"}

ConcurrentParams ==
    {[name |-> "check_outage", arguments |-> Args(<<<<"service", "att">>>>)],
     [name |-> "search_service", arguments |-> Args(<<<<"service_name", "att">>>>)]}

\* one client for all requests: the client made last
ClientOfLatest(inb, i) ==
    inb[CHOOSE j \in 1..Len(inb) :
          /\ inb[j].statusGatorClient # Null
          /\ \A k \in (j + 1)..Len(inb) : inb[k].statusGatorClient = Null].statusGatorClient

\* const statusGatorClient = new StatusGatorClient(apiKey): a local of the
\* handler of request i
ClientOf(inb, i) == inb[i].statusGatorClient

\* the upstream requests the tool of request i makes, with the client the
\* handler holds
UpstreamPlan(inb, i) ==
    HttpToolSwitch(Net({}, "status", ClientOf(inb, i).apiKey),
                   inb[i].params.name, inb[i].params.arguments).reqs

\* app.post('/mcp') with tools/call up to the await of the import: the key
\* is resolved, or the catch answers with the error
Arrive ==
    /\ Len(inbound) < MaxInbound
    /\ \E h \in ConcurrentHeaders, ps \in ConcurrentParams :
          \E key \in {getApiKey(h, envKey)} :
             inbound' = Append(inbound,
                IF key.ok
                THEN [pc |-> "importing", authorization |-> h, params |-> ps,
                      apiKey |-> key.val, statusGatorClient |-> Null,
                      sent |-> <<>>, response |-> Null]
                ELSE [pc |-> "responded", authorization |-> h, params |-> ps,
                      apiKey |-> "", statusGatorClient |-> Null,
                      sent |-> <<>>, response |-> HttpError(500, -32603, key.msg)])
    /\ UNCHANGED <<upstream, envKey, phase, call, reply, sent, usedKey, clock,
                   previous, fanVars, secretsVars, loop, tracing, traced>>

\* the import has resolved: new StatusGatorClient(apiKey), and the tool runs
\* up to the await of its first upstream request
Construct(i) ==
    /\ i <= Len(inbound)
    /\ inbound[i].pc = "importing"
    /\ \E made \in {[inbound EXCEPT
                       ![i].statusGatorClient = [apiKey |-> inbound[i].apiKey]]} :
          inbound' = [made EXCEPT ![i].pc = "fetching",
                                  ![i].sent = <<UpstreamPlan(made, i)[1]>>]
    /\ UNCHANGED <<upstream, envKey, phase, call, reply, sent, usedKey, clock,
                   previous, fanVars, secretsVars, loop, tracing, traced>>

\* the upstream request of request i is answered and its tool issues the
\* next one
NextFetch(i) ==
    /\ i <= Len(inbound)
    /\ inbound[i].pc = "fetching"
    /\ Len(inbound[i].sent) < Len(UpstreamPlan(inbound, i))
    /\ inbound' = [inbound EXCEPT
                     ![i].sent = Append(@, UpstreamPlan(inbound, i)[Len(@) + 1])]
    /\ UNCHANGED <<upstream, envKey, phase, call, reply, sent, usedKey, clock,
                   previous, fanVars, secretsVars, loop, tracing, traced>>

\* the last upstream request of request i is answered: res.json(response)
SendResponse(i) ==
    /\ i <= Len(inbound)
    /\ inbound[i].pc = "fetching"
    /\ Len(inbound[i].sent) = Len(UpstreamPlan(inbound, i))
    /\ inbound' = [inbound EXCEPT
                     ![i].pc = "responded",
                     ![i].response =
                        HttpPostMcp(Net({}, "status", ""),
                                    [method |-> "tools/call",
                                     authorization |-> inbound[i].authorization,
                                     params |-> inbound[i].params],
                                    envKey).response]
    /\ UNCHANGED <<upstream, envKey, phase, call, reply, sent, usedKey, clock,
                   previous, fanVars, secretsVars, loop, tracing, traced>>

InitConcurrent == InitHttp

NextConcurrent ==
    \/ Arrive
    \/ \E i \in 1..MaxInbound : Construct(i)
    \/ \E i \in 1..MaxInbound : NextFetch(i)
    \/ \E i \in 1..MaxInbound : SendResponse(i)

SpecConcurrent == InitConcurrent /\ [][NextConcurrent]_vars

\* the key resolved for an inbound request: its bearer token, else the key of
\* the environment
ResolvedKey(i) == getApiKey(inbound[i].authorization, envKey)

\* C28: for every interleaving of concurrent tools/call requests, every
\* upstream request sent on behalf of an inbound request carries the key
\* resolved for that inbound request, never the key of another request.
C28_KeysNeverCross ==
    \A i \in 1..Len(inbound) :
       \A k \in 1..Len(inbound[i].sent) :
          /\ ResolvedKey(i).ok
          /\ inbound[i].sent[k].authorization = "Bearer " \o ResolvedKey(i).val

\* two requests with different bearer tokens are in flight at the same time;
\* the first sent a request before and after the second made its client
C28_Witness ==
    /\ Len(inbound) = 2
    /\ inbound[1].authorization = "Bearer k1"
    /\ inbound[2].authorization = "bearer   k2"
    /\ inbound[1].pc = "fetching"
    /\ inbound[2].pc = "fetching"
    /\ Len(inbound[1].sent) = 3
    /\ Len(inbound[2].sent) = 1
    /\ \A k \in 1..3 : inbound[1].sent[k].authorization = "Bearer k1"
    /\ inbound[2].sent[1].authorization = "Bearer k2"

----------------------------------------------------------------------------
(* Termination of loadSecrets, src/src/shared/secrets-loader.js 88-163.    *)
(* Every access to the secrets backend returns or fails, so a load that    *)
(* was started completes (weak fairness of Complete); the 100 ms timer of  *)
(* a waiting caller fires again and again, and what it finds is the value  *)
(* of isLoading at that moment, so a caller that could leave its loop for  *)
(* good does leave it (weak fairness of Poll).  Nothing makes the timer    *)
(* fire in the stretch between the end of one load and the start of the    *)
(* next: the caller that awaited the load runs on in the same turn of the  *)
(* event loop.                                                             *)

\* the loads and what the callers saw of them are the model's record of the
\* past; it is dropped when it is full and no load is in flight, so that
\* loads can be started without end
ForgetLoads ==
    /\ Len(loads) = MaxLoads
    /\ ~isLoading
    /\ loads' = <<>>
    /\ callers' = [c \in Callers |->
                     [callers[c] EXCEPT !.awaiting = 0, !.entered = 0]]
    /\ UNCHANGED <<secretsCache, isLoading, secretString, useSecretsManager>>
    /\ UNCHANGED <<upstream, envKey, phase, call, reply, sent, usedKey, clock,
                   previous, fanVars, otherVars>>

InitSecretsLive ==
    /\ InitSecrets
    /\ envKey = "env-key"
    /\ secretString = "s1"

NextSecretsLive ==
    \/ \E c \in Callers : Enter(c)
    \/ \E c \in Callers : Complete(c)
    \/ \E c \in Callers : Poll(c)
    \/ \E c \in Callers : Leave(c)
    \/ clearSecretsCache
    \/ ForgetLoads

SpecSecretsLive ==
    /\ InitSecretsLive
    /\ [][NextSecretsLive]_vars
    /\ \A c \in Callers : WF_vars(Complete(c))
    /\ \A c \in Callers : WF_vars(Poll(c))

\* C30 as claimed: every call of loadSecrets eventually returns, the calls
\* that wait for a load in flight included.
C30_EveryCallReturns ==
    \A c \in Callers :
       (callers[c].pc \in {"loading", "waiting"}) ~> (callers[c].pc = "returned")

\* a caller still waits while the load it found in flight is over and the
\* next load is in flight
C30_Witness ==
    /\ callers["b"].pc = "waiting"
    /\ callers["b"].awaiting = 1
    /\ Len(loads) = 2
    /\ loads[1].result # Null
    /\ loads[2].result = Null
    /\ callers["a"].pc = "loading"
    /\ isLoading

\* the part of C30 on the caller that loads: its call returns
C30_LoadReturns ==
    \A c \in Callers : (callers[c].pc = "loading") ~> (callers[c].pc = "returned")

\* the part of C30 on isLoading: it is false whenever no load is executing,
\* also after a load that ended in error
C30_IsLoadingOnlyWhileLoading ==
    isLoading <=> (\E c \in Callers : callers[c].pc = "loading")

\* the waiting callers return in every behaviour in which loads stop being
\* started
C30_WaitersReturnOnceLoadsEnd ==
    (<>[](~isLoading)) =>
        \A c \in Callers : (callers[c].pc = "waiting") ~> (callers[c].pc = "returned")

============================================================================
